---- MODULE Spec2Model ----
(***************************************************************************)
(* Task lifecycle, progress and cancellation protocol of the V-JEPA2       *)
(* planning backend (backend/app/services/planner.py, the planning and     *)
(* batch routes, the CEM loop of backend/app/services/vjepa2.py).          *)
(*                                                                         *)
(* Scheduling model.  One asyncio event loop runs the request handlers and *)
(* the driver coroutines; a coroutine runs without interruption from one   *)
(* await to the next, so every event-loop action below is one such run.    *)
(* Jobs handed to run_in_executor run in threads of the default executor,  *)
(* concurrently with the event loop and with each other; a worker action   *)
(* is one access of the job to shared state.  Task.cancel() of asyncio     *)
(* marks the driver (must_cancel); the CancelledError is raised at the     *)
(* await the driver is suspended at when it next runs.  A job already      *)
(* running in a thread is not interrupted by the cancellation of the       *)
(* future that awaits it.                                                  *)
(*                                                                         *)
(* The lifecycle model (Spec) leaves out the eviction of old tasks, the     *)
(* numeric side of CEM and the delivery of progress events to sockets;     *)
(* each of these has a model of its own further down (SpecEvict, SpecCem,  *)
(* SpecDeliver), over variables the lifecycle actions leave alone; so have *)
(* the batch of a CEM iteration (SpecBatch), the rollout statistics of a    *)
(* trajectory (SpecRollout), send_message (SpecSend), the confidence of a  *)
(* CEM result (SpecConf), the step loop of a trajectory with its progress  *)
(* events (SpecTraj) and the download progress poller of run_planning      *)
(* (SpecPoll).  SpecBatchRun runs the batch routes alone, with the cancel  *)
(* of a batch, over the variables of the lifecycle model.  Left out        *)
(* altogether: the contents of the embedding cache.                        *)
(* run_cem_from_embedding is not part of the source tree; its job is taken *)
(* to run the iteration loop of run_cem, with the callback                 *)
(* cem_progress_for_step that the source does hold.                        *)
(***************************************************************************)
EXTENDS Integers, Sequences, FiniteSets, TLC

\* Number of task identities the model hands out (uuid4 values).
MaxTasks == 2
\* PlanningRequest.iterations: Field(ge=3, le=20); the model explores MinIter..MaxIter.
MinIter == 3
MaxIter == 3
\* TrajectoryRequest.num_steps explored: 1..MaxSteps.
MaxSteps == 1
\* run_cem: convergence_window = 3.
convergence_window == 3

TaskIds == 1..MaxTasks

Terminal == {"completed", "failed", "cancelled"}

VARIABLES
    tasks,             \* planner.tasks: id -> PlanningTask
    trajectory_tasks,  \* planner.trajectory_tasks: id -> TrajectoryTask
    background_tasks,  \* planning._background_tasks: ids of the tracked asyncio tasks
    driver,            \* id -> the asyncio task running the task's driver coroutine
    worker,            \* id -> the executor job of the task (thread)
    terminal_events,   \* id -> terminal messages handed to ws_manager, in order
    model_loaded,      \* loader.is_loaded(model_id)
    batches,           \* batch._batches: batch id -> BatchStatus and its runner
    last_cancel,       \* the call and return value of the latest cancel_*task call
    cancel_at          \* id -> iteration being scored when task.cancelled was set (0: none)

vars == <<tasks, trajectory_tasks, background_tasks, driver, worker, terminal_events,
          model_loaded, batches, last_cancel, cancel_at>>

\* The state of the three component models further down: the ev_tasks under
\* eviction, one run of the CEM optimizer, and the delivery of progress events.
VARIABLES
    ev_tasks,             \* planner.tasks in insertion order, with each task's start_time
    ev_trajectory_tasks,  \* planner.trajectory_tasks in insertion order
    clock,                \* time.time()
    next_uuid             \* the next identity uuid4 hands out

evict_vars == <<ev_tasks, ev_trajectory_tasks, clock, next_uuid>>

VARIABLES
    cem,                  \* run_cem: its loop position and local variables
    cb_energy_history,    \* the energy_history list of run_planning.cem_progress
    progress_event,       \* the latest PlanningProgress the callback built
    cem_result,           \* what run_cem returned
    cem_cancelled         \* task.cancelled as the callback reads it

cem_vars == <<cem, cb_energy_history, progress_event, cem_result, cem_cancelled>>

VARIABLES
    connections,          \* ws_manager.connections[task_id], a list of sockets
    received,             \* what each socket was sent, in order
    emitted,              \* how many progress events the worker has emitted
    ready,                \* the progress tasks the event loop has yet to start
    senders,              \* the progress tasks inside send_message
    waiting               \* per socket, the tasks suspended in its send_json

deliver_vars == <<connections, received, emitted, ready, senders, waiting>>

VARIABLES
    opt,                  \* run_cem with its batch: loop position, best_energy, best_action
    actions,              \* the batch of the iteration, after np.clip
    energies,             \* the energy of each action of the batch
    sorted_elite_idx,     \* the elite of the iteration, lowest energy first
    lowest,               \* the lowest energy scored so far and the actions that got it
    opt_result            \* what run_cem returned

batch_vars == <<opt, actions, energies, sorted_elite_idx, lowest, opt_result>>

VARIABLES
    rollout               \* run_trajectory_planning: its distances, steps and trend

rollout_vars == <<rollout>>

VARIABLES
    ws_connections,       \* ws_manager.connections: whether it has the task's key, and its list
    client_state,         \* websocket.client_state of each socket
    send_call,            \* a call of send_message: its position and local variables
    ws_seen,              \* the sockets that have been registered
    ws_left               \* the sockets their endpoint has unregistered

send_vars == <<ws_connections, client_state, send_call, ws_seen, ws_left>>

VARIABLES
    conf                  \* run_cem after its loop: the inputs of the confidence and its value

conf_vars == <<conf>>

VARIABLES
    traj                  \* run_trajectory_planning: its step loop, embeddings and progress events

traj_vars == <<traj>>

VARIABLES
    poll                  \* run_planning up to the model load, with poll_download_progress

poll_vars == <<poll>>

sub_vars == <<evict_vars, cem_vars, deliver_vars, batch_vars, rollout_vars, send_vars,
              conf_vars, traj_vars, poll_vars>>

\* What the eviction model leaves alone.
not_evict_vars ==
    <<vars, cem_vars, deliver_vars, batch_vars, rollout_vars, send_vars, conf_vars,
      traj_vars, poll_vars>>

\* What the optimizer model leaves alone.
not_cem_vars ==
    <<vars, evict_vars, deliver_vars, batch_vars, rollout_vars, send_vars, conf_vars,
      traj_vars, poll_vars>>

\* What the delivery model leaves alone.
not_deliver_vars ==
    <<vars, evict_vars, cem_vars, batch_vars, rollout_vars, send_vars, conf_vars,
      traj_vars, poll_vars>>

\* What the rollout model leaves alone.
not_rollout_vars ==
    <<vars, evict_vars, cem_vars, deliver_vars, batch_vars, send_vars, conf_vars,
      traj_vars, poll_vars>>

\* What the model of send_message leaves alone.
not_send_vars ==
    <<vars, evict_vars, cem_vars, deliver_vars, batch_vars, rollout_vars, conf_vars,
      traj_vars, poll_vars>>

\* What the confidence model leaves alone.
not_conf_vars ==
    <<vars, evict_vars, cem_vars, deliver_vars, batch_vars, rollout_vars, send_vars,
      traj_vars, poll_vars>>

\* What the model of the trajectory loop leaves alone.
not_traj_vars ==
    <<vars, evict_vars, cem_vars, deliver_vars, batch_vars, rollout_vars, send_vars, conf_vars,
      poll_vars>>

\* What the model of the download poller leaves alone.
not_poll_vars ==
    <<vars, evict_vars, cem_vars, deliver_vars, batch_vars, rollout_vars, send_vars, conf_vars,
      traj_vars>>

\* What the batch model leaves alone.
not_batch_vars ==
    <<vars, evict_vars, cem_vars, deliver_vars, rollout_vars, send_vars, conf_vars,
      traj_vars, poll_vars>>

----------------------------------------------------------------------------
(* Data model: planner.py dataclasses.                                      *)

\* PlanningProgress / TrajectoryProgress, reduced to the fields the drivers set.
NoProgress == [status |-> "None", current_step |-> 0, iteration |-> 0]

LoadingProgress == [status |-> "loading_model", current_step |-> 0, iteration |-> 0]

EncodingProgress == [status |-> "encoding", current_step |-> 0, iteration |-> 0]

RunningProgress(step, iteration) ==
    [status |-> "running", current_step |-> step, iteration |-> iteration]

\* PlanningTask(id, request): status "queued", no progress/result/error, not cancelled.
PlanningTask(iterations) ==
    [status |-> "queued", progress |-> NoProgress, result |-> "None",
     error |-> "None", cancelled |-> FALSE,
     iterations |-> iterations, num_steps |-> 0]

\* TrajectoryTask(id, request).
TrajectoryTask(iterations, num_steps) ==
    [status |-> "queued", progress |-> NoProgress, result |-> "None",
     error |-> "None", cancelled |-> FALSE,
     iterations |-> iterations, num_steps |-> num_steps]

\* The asyncio task of a driver: where it is suspended, whether cancel() was
\* called on it, which wrapper runs it ("ws": _run_planning_with_ws /
\* _run_trajectory_with_ws, "batch": _run_single_task under wait_for).
NewDriver(wrapper, batch) ==
    [pc |-> "unstarted", must_cancel |-> FALSE, wrapper |-> wrapper,
     batch |-> batch, timed_out |-> FALSE, step |-> 0]

NoJob == [job |-> "none", pc |-> "none", iter |-> 0]

Job(kind, pc) == [job |-> kind, pc |-> pc, iter |-> 0]

Created == DOMAIN tasks \cup DOMAIN trajectory_tasks

IsPlan(t) == t \in DOMAIN tasks

IsTraj(t) == t \in DOMAIN trajectory_tasks

\* planner.get_task / get_trajectory_task for an id known to exist.
TaskOf(t) == IF IsPlan(t) THEN tasks[t] ELSE trajectory_tasks[t]

\* A write of the task object's fields.
Put(t, rec) ==
    IF IsPlan(t)
    THEN /\ tasks' = [tasks EXCEPT ![t] = rec]
         /\ UNCHANGED trajectory_tasks
    ELSE /\ trajectory_tasks' = [trajectory_tasks EXCEPT ![t] = rec]
         /\ UNCHANGED tasks

\* uuid.uuid4(): an identity not in use.
FreshId == Cardinality(Created) + 1

\* The returned value of a cancel call is visible until the next step of the system.
NoCall == [op |-> "none", id |-> 0, ret |-> FALSE]

Init ==
    /\ tasks = <<>>
    /\ trajectory_tasks = <<>>
    /\ background_tasks = {}
    /\ driver = <<>>
    /\ worker = <<>>
    /\ terminal_events = <<>>
    /\ model_loaded = FALSE
    /\ batches = <<>>
    /\ last_cancel = NoCall
    /\ cancel_at = <<>>


----------------------------------------------------------------------------
(* Request handlers (event loop).                                           *)

\* Fault: a create endpoint that leaves the tracked executions alone.
SupersededNobody(d) == d

\* planning.py 101-112 / 274-279: old_task.cancel() for every tracked task that
\* is not done; every entry is popped.
Superseded(d) ==
    [t \in DOMAIN d |->
        IF t \in background_tasks /\ d[t].pc # "done"
        THEN [d[t] EXCEPT !.must_cancel = TRUE]
        ELSE d[t]]

\* The per-task bookkeeping of a newly created identity.
Register(new) ==
    /\ worker' = worker @@ (new :> NoJob)
    /\ terminal_events' = terminal_events @@ (new :> <<>>)
    /\ cancel_at' = cancel_at @@ (new :> 0)

\* POST /plan: supersession, planner.create_task, asyncio.create_task(driver).
create_planning_task ==
    /\ FreshId \in TaskIds
    /\ \E iterations \in MinIter..MaxIter :
          tasks' = tasks @@ (FreshId :> PlanningTask(iterations))
    /\ driver' = Superseded(driver) @@ (FreshId :> NewDriver("ws", 0))
    /\ background_tasks' = {FreshId}
    /\ Register(FreshId)
    /\ last_cancel' = NoCall
    /\ UNCHANGED <<trajectory_tasks, model_loaded, batches>>
    /\ UNCHANGED sub_vars

\* POST /plan/trajectory: supersession, planner.create_trajectory_task, driver.
create_trajectory_task ==
    /\ FreshId \in TaskIds
    /\ \E iterations \in MinIter..MaxIter, num_steps \in 1..MaxSteps :
          trajectory_tasks' =
              trajectory_tasks @@ (FreshId :> TrajectoryTask(iterations, num_steps))
    /\ driver' = Superseded(driver) @@ (FreshId :> NewDriver("ws", 0))
    /\ background_tasks' = {FreshId}
    /\ Register(FreshId)
    /\ last_cancel' = NoCall
    /\ UNCHANGED <<tasks, model_loaded, batches>>
    /\ UNCHANGED sub_vars

\* BatchStatus with the state of its _run_batch coroutine (runner).
NewBatch(ids, parallel, max_concurrent) ==
    [status |-> "queued", total_tasks |-> Cardinality(ids),
     completed_tasks |-> 0, failed_tasks |-> 0,
     task_status |-> [t \in ids |-> "queued"],
     completed_at |-> FALSE,
     parallel |-> parallel, max_concurrent |-> max_concurrent,
     runner |-> "unstarted",
     cancel_response |-> [called |-> FALSE, cancelled_tasks |-> 0, pending |-> {}]]

\* POST /batch: planner.create_task per request (no supersession, not tracked in
\* _background_tasks), asyncio.create_task(_run_batch).  A batch of one task
\* runs the same with either value of `parallel`; it is followed as a
\* sequential one.
create_batch ==
    /\ FreshId \in TaskIds
    /\ \E n \in 1..(MaxTasks - Cardinality(Created)), iterations \in MinIter..MaxIter :
        \E parallel \in (IF n = 1 THEN {FALSE} ELSE BOOLEAN) :
        \E max_concurrent \in (IF parallel THEN 1..n ELSE {1}) :
          LET ids == FreshId..(FreshId + n - 1) IN
          /\ tasks' = tasks @@ [t \in ids |-> PlanningTask(iterations)]
          /\ driver' = driver @@ [t \in ids |-> NewDriver("batch", FreshId)]
          /\ worker' = worker @@ [t \in ids |-> NoJob]
          /\ terminal_events' = terminal_events @@ [t \in ids |-> <<>>]
          /\ cancel_at' = cancel_at @@ [t \in ids |-> 0]
          /\ batches' = batches @@ (FreshId :> NewBatch(ids, parallel, max_concurrent))
    /\ last_cancel' = NoCall
    /\ UNCHANGED <<trajectory_tasks, background_tasks, model_loaded>>
    /\ UNCHANGED sub_vars

\* Fault: a cancel that accepts every task of the registry, whatever its status.
CanCancelAnyStatus(registry, id) == id \in DOMAIN registry

\* Fault: a cancel that also accepts a task that has not started yet.
CanCancelQueued(registry, id) ==
    id \in DOMAIN registry /\ registry[id].status \in {"queued", "running"}

\* planner.py 139 / 573: `if task and task.status == "running"`.
CanCancel(registry, id) ==
    id \in DOMAIN registry /\ registry[id].status = "running"

\* Fault: a cancel that puts the task back in the queue.
MarkRequeued(task) == [task EXCEPT !.cancelled = TRUE, !.status = "queued"]

\* planner.py 140-141 / 574-575: task.cancelled = True; task.status = "cancelled".
MarkCancelled(task) == [task EXCEPT !.cancelled = TRUE, !.status = "cancelled"]

\* The iteration whose batch the task's worker is scoring (0 when it is not scoring).
ScoringIteration(id) ==
    IF id \in DOMAIN worker /\ worker[id].job = "cem" /\ worker[id].pc = "eval"
    THEN worker[id].iter ELSE 0

\* PlannerService.cancel_task(task_id) -> bool.
cancel_task(id) ==
    /\ IF CanCancel(tasks, id)
       THEN /\ tasks' = [tasks EXCEPT ![id] = MarkCancelled(@)]
            /\ cancel_at' = [cancel_at EXCEPT ![id] = ScoringIteration(id)]
            /\ last_cancel' = [op |-> "cancel_task", id |-> id, ret |-> TRUE]
       ELSE /\ UNCHANGED <<tasks, cancel_at>>
            /\ last_cancel' = [op |-> "cancel_task", id |-> id, ret |-> FALSE]
    /\ UNCHANGED <<trajectory_tasks, background_tasks, driver, worker, terminal_events,
                   model_loaded, batches>>
    /\ UNCHANGED sub_vars

\* PlannerService.cancel_trajectory_task(task_id) -> bool.
cancel_trajectory_task(id) ==
    /\ IF CanCancel(trajectory_tasks, id)
       THEN /\ trajectory_tasks' = [trajectory_tasks EXCEPT ![id] = MarkCancelled(@)]
            /\ cancel_at' = [cancel_at EXCEPT ![id] = ScoringIteration(id)]
            /\ last_cancel' = [op |-> "cancel_trajectory_task", id |-> id, ret |-> TRUE]
       ELSE /\ UNCHANGED <<trajectory_tasks, cancel_at>>
            /\ last_cancel' = [op |-> "cancel_trajectory_task", id |-> id, ret |-> FALSE]
    /\ UNCHANGED <<tasks, background_tasks, driver, worker, terminal_events,
                   model_loaded, batches>>
    /\ UNCHANGED sub_vars

\* batch.py 183-201: POST /batch/{id}/cancel calls planner.cancel_task for each
\* task of the batch and answers with the number of calls that returned true.
\* The answer is kept with the tasks of the batch that had not finished when
\* the call was made; one call per batch is followed.
cancel_batch(b) ==
    /\ b \in DOMAIN batches
    /\ ~batches[b].cancel_response.called
    /\ LET ids == DOMAIN batches[b].task_status
           accepted == {t \in ids : CanCancel(tasks, t)}
       IN /\ tasks' = [t \in DOMAIN tasks |->
                          IF t \in accepted THEN MarkCancelled(tasks[t]) ELSE tasks[t]]
          /\ cancel_at' = [t \in DOMAIN cancel_at |->
                              IF t \in accepted THEN ScoringIteration(t) ELSE cancel_at[t]]
          /\ batches' = [batches EXCEPT
                 ![b].cancel_response =
                     [called |-> TRUE,
                      cancelled_tasks |-> Cardinality(accepted),
                      pending |-> {t \in ids : tasks[t].status \notin Terminal}]]
    /\ last_cancel' = NoCall
    /\ UNCHANGED <<trajectory_tasks, background_tasks, driver, worker, terminal_events,
                   model_loaded>>
    /\ UNCHANGED sub_vars

----------------------------------------------------------------------------
(* End of a driver run: what the wrapper around run_planning /              *)
(* run_trajectory_planning does with its return or its exception.           *)

\* The message the websocket wrapper broadcasts for an outcome.
EventOf(outcome) ==
    CASE outcome = "return" -> "completed"
      [] outcome = "cancelled" -> "cancelled"
      [] OTHER -> "error"

\* _run_planning_with_ws / _run_trajectory_with_ws: broadcast_completed after the
\* return, broadcast_cancelled on CancelledError, broadcast_error on Exception,
\* then the finally block.  send_message awaits websocket.send_json when the
\* task has subscribers (the driver is then suspended, pc "sending"), and
\* returns without suspending when it has none.
EndWs(t, outcome) ==
    /\ terminal_events' = [terminal_events EXCEPT ![t] = Append(@, EventOf(outcome))]
    /\ \E has_subscribers \in BOOLEAN :
          IF has_subscribers
          THEN /\ driver' = [driver EXCEPT ![t].pc =
                                 IF outcome = "return" THEN "sending" ELSE "sending_handler",
                                               ![t].must_cancel = FALSE]
               /\ UNCHANGED background_tasks
          ELSE /\ driver' = [driver EXCEPT ![t].pc = "done", ![t].must_cancel = FALSE]
               /\ background_tasks' = background_tasks \ {t}
    /\ UNCHANGED batches

\* _run_single_task: the return counts as completed; Exception, and the
\* TimeoutError wait_for makes of the cancellation it requested, count as failed;
\* a CancelledError that wait_for did not request is a BaseException no handler
\* of _run_single_task catches: it ends the child and, through gather() or the
\* sequential await, the _run_batch coroutine awaiting it.
EndBatch(t, outcome, bs) ==
    LET b == driver[t].batch IN
    /\ driver' = [driver EXCEPT ![t].pc = "done", ![t].must_cancel = FALSE]
    /\ batches' =
         IF outcome = "return"
         THEN [bs EXCEPT ![b].completed_tasks = @ + 1,
                         ![b].task_status[t] = "completed"]
         ELSE IF outcome = "error" \/ driver[t].timed_out
         THEN [bs EXCEPT ![b].failed_tasks = @ + 1,
                         ![b].task_status[t] = "failed"]
         ELSE [bs EXCEPT ![b].runner = IF @ = "running" THEN "dead" ELSE @]
    /\ UNCHANGED <<terminal_events, background_tasks>>

EndRun(t, outcome, bs) ==
    IF driver[t].wrapper = "ws" THEN EndWs(t, outcome) ELSE EndBatch(t, outcome, bs)

\* The driver stays suspended at its next await.
Suspend(t, pc, bs) ==
    /\ driver' = [driver EXCEPT ![t].pc = pc]
    /\ batches' = bs
    /\ UNCHANGED <<terminal_events, background_tasks>>

\* A CancelledError raised at an await that no handler of the driver catches:
\* the task object is left as it is.
RaiseCancelled(t) ==
    /\ UNCHANGED <<tasks, trajectory_tasks, worker, model_loaded>>
    /\ EndRun(t, "cancelled", batches)

----------------------------------------------------------------------------
(* Driver coroutines (event loop): run_planning, run_trajectory_planning.   *)

\* Fault: an image failure that marks the task failed without an error text.
LoadImagesNoError(t, tk, bs) ==
    \E images_ok \in BOOLEAN :
       IF images_ok
       THEN /\ Put(t, tk)
            /\ worker' = [worker EXCEPT ![t] = Job("load", "run")]
            /\ Suspend(t, "await_inference", bs)
       ELSE /\ Put(t, [tk EXCEPT !.status = "failed"])
            /\ UNCHANGED worker
            /\ EndRun(t, "error", bs)

\* Fault: the model acquisition is handed to the executor before the images
\* are looked at.
LoadImagesAfterDispatch(t, tk, bs) ==
    \E images_ok \in BOOLEAN :
       IF images_ok
       THEN /\ Put(t, tk)
            /\ worker' = [worker EXCEPT ![t] = Job("load", "run")]
            /\ Suspend(t, "await_inference", bs)
       ELSE /\ Put(t, [tk EXCEPT !.status = "failed", !.error = "Could not load images"])
            /\ worker' = [worker EXCEPT ![t] = Job("load", "run")]
            /\ EndRun(t, "error", bs)

\* planner.py 360-378 / 647-660: resolve the two image references; on failure
\* status "failed" with an error and ValueError; otherwise hand _get_inference to
\* the executor and await it.
LoadImages(t, tk, bs) ==
    \E images_ok \in BOOLEAN :
       IF images_ok
       THEN /\ Put(t, tk)
            /\ worker' = [worker EXCEPT ![t] = Job("load", "run")]
            /\ Suspend(t, "await_inference", bs)
       ELSE /\ Put(t, [tk EXCEPT !.status = "failed", !.error = "Could not load images"])
            /\ UNCHANGED worker
            /\ EndRun(t, "error", bs)

\* _run_batch: a child starts when the semaphore has a free slot (parallel) or
\* when the children before it have ended (sequential).
BatchMayStart(t) ==
    LET b == driver[t].batch
        ids == DOMAIN batches[b].task_status
        active == {u \in ids : driver[u].pc \notin {"unstarted", "done"}}
    IN IF batches[b].parallel
       THEN /\ batches[b].runner \in {"running", "dead"}
            /\ Cardinality(active) < batches[b].max_concurrent
       ELSE /\ batches[b].runner = "running"
            /\ \A u \in ids : u < t => driver[u].pc = "done"

\* The first run of the driver: planner.py 187-279 / 600-645, then the images.
\* A task cancelled before its first run never executes its coroutine body.
DriverStart(t) ==
    /\ t \in Created
    /\ driver[t].pc = "unstarted"
    /\ driver[t].wrapper = "batch" => BatchMayStart(t)
    /\ last_cancel' = NoCall
    /\ UNCHANGED <<cancel_at, model_loaded>>
    /\ IF driver[t].must_cancel
       THEN /\ driver' = [driver EXCEPT ![t].pc = "done", ![t].must_cancel = FALSE]
            /\ UNCHANGED <<tasks, trajectory_tasks, worker, terminal_events,
                           background_tasks, batches>>
       ELSE LET tk == [TaskOf(t) EXCEPT !.status = "running"]
                bs == IF driver[t].wrapper = "batch"
                      THEN [batches EXCEPT ![driver[t].batch].task_status[t] = "running"]
                      ELSE batches
            IN IF ~model_loaded
               THEN /\ Put(t, [tk EXCEPT !.progress = LoadingProgress])
                    /\ UNCHANGED worker
                    /\ Suspend(t, "sleep_loading", bs)
               ELSE LoadImages(t, tk, bs)
    /\ UNCHANGED sub_vars

\* planner.py 279 / 645: await asyncio.sleep(0.1) returns.
AfterLoadingSleep(t) ==
    /\ t \in Created
    /\ driver[t].pc = "sleep_loading"
    /\ last_cancel' = NoCall
    /\ UNCHANGED cancel_at
    /\ IF driver[t].must_cancel
       THEN RaiseCancelled(t)
       ELSE /\ UNCHANGED model_loaded
            /\ LoadImages(t, TaskOf(t), batches)
    /\ UNCHANGED sub_vars

\* planner.py 375-439 / 658-686: the await of _get_inference ends.  An exception
\* of the load propagates out of the driver with the task untouched.
AfterInference(t) ==
    /\ t \in Created
    /\ driver[t].pc = "await_inference"
    /\ driver[t].must_cancel \/ worker[t].pc \in {"ok", "raised"}
    /\ last_cancel' = NoCall
    /\ UNCHANGED cancel_at
    /\ IF driver[t].must_cancel
       THEN RaiseCancelled(t)
       ELSE IF worker[t].pc = "raised"
       THEN /\ worker' = [worker EXCEPT ![t] = NoJob]
            /\ UNCHANGED <<tasks, trajectory_tasks, model_loaded>>
            /\ EndRun(t, "error", batches)
       ELSE /\ worker' = [worker EXCEPT ![t] = NoJob]
            /\ Put(t, [TaskOf(t) EXCEPT !.progress = EncodingProgress])
            /\ UNCHANGED model_loaded
            /\ Suspend(t, "sleep_encoding", batches)
    /\ UNCHANGED sub_vars

\* planner.py 439-491 / 686-729: await asyncio.sleep(0.05) returns; run_cem
\* (single step) or encode_and_get_distance (trajectory) goes to the executor.
AfterEncodingSleep(t) ==
    /\ t \in Created
    /\ driver[t].pc = "sleep_encoding"
    /\ last_cancel' = NoCall
    /\ UNCHANGED cancel_at
    /\ IF driver[t].must_cancel
       THEN RaiseCancelled(t)
       ELSE /\ UNCHANGED <<tasks, trajectory_tasks, model_loaded>>
            /\ IF IsPlan(t)
               THEN /\ worker' = [worker EXCEPT ![t] = Job("cem", "encode")]
                    /\ Suspend(t, "await_cem", batches)
               ELSE /\ worker' = [worker EXCEPT ![t] = Job("encode", "run")]
                    /\ Suspend(t, "await_encode", batches)
    /\ UNCHANGED sub_vars

\* The job a driver was awaiting, once the driver has moved on: a finished job
\* is consumed, a running one keeps running in its thread.
Released(t) ==
    IF worker[t].pc \in {"ok", "raised", "cancelled"}
    THEN [worker EXCEPT ![t] = NoJob]
    ELSE worker

\* planner.py 743-810: the head of the step loop.  With steps left it checks
\* task.cancelled (raising CancelledError outside any handler) and hands
\* run_cem_from_embedding to the executor; after the last step it hands the
\* final distance to the executor (planner.py 885-891).
LoopTop(t, tk, step) ==
    IF step < tk.num_steps
    THEN IF tk.cancelled
         THEN /\ Put(t, tk)
              /\ worker' = [worker EXCEPT ![t] = NoJob]
              /\ EndRun(t, "cancelled", batches)
         ELSE /\ Put(t, tk)
              /\ worker' = [worker EXCEPT ![t] = [job |-> "cem", pc |-> "eval", iter |-> 1]]
              /\ driver' = [driver EXCEPT ![t].pc = "await_cem", ![t].step = step]
              /\ UNCHANGED <<terminal_events, background_tasks, batches>>
    ELSE /\ Put(t, tk)
         /\ worker' = [worker EXCEPT ![t] = Job("final", "run")]
         /\ driver' = [driver EXCEPT ![t].pc = "await_final", ![t].step = step]
         /\ UNCHANGED <<terminal_events, background_tasks, batches>>

\* planner.py 726-738: the await of encode_and_get_distance ends.
AfterEncode(t) ==
    /\ t \in Created
    /\ driver[t].pc = "await_encode"
    /\ driver[t].must_cancel \/ worker[t].pc \in {"ok", "raised"}
    /\ last_cancel' = NoCall
    /\ UNCHANGED cancel_at
    /\ IF driver[t].must_cancel
       THEN RaiseCancelled(t)
       ELSE /\ UNCHANGED model_loaded
            /\ IF worker[t].pc = "raised"
               THEN /\ Put(t, [TaskOf(t) EXCEPT !.status = "failed",
                                                !.error = "Failed to encode images"])
                    /\ worker' = [worker EXCEPT ![t] = NoJob]
                    /\ EndRun(t, "error", batches)
               ELSE LoopTop(t, TaskOf(t), 0)
    /\ UNCHANGED sub_vars

\* Fault: a failure of run_cem that also drops the progress record.
CemFailedClearsProgress(task) ==
    [task EXCEPT !.status = "failed", !.error = "Planning execution failed",
                 !.progress = NoProgress]

\* planner.py 494-500 / 813-817: `except Exception` around the await of run_cem;
\* the error text carries str(e).
CemFailed(task) ==
    [task EXCEPT !.status = "failed", !.error = "Planning execution failed"]

\* planner.py 480-523 (run_planning) / 793-818 (run_trajectory_planning): the
\* await of the CEM job ends.  `except asyncio.CancelledError` sets status
\* "cancelled" and re-raises, whether the CancelledError comes from the progress
\* callback in the worker or from the cancellation of the driver itself;
\* `except Exception` sets status "failed" and an error; a result completes the
\* single-step task, or lets the trajectory roll its embedding forward.
AfterCem(t) ==
    /\ t \in Created
    /\ driver[t].pc = "await_cem"
    /\ driver[t].must_cancel \/ worker[t].pc \in {"ok", "raised", "cancelled"}
    /\ last_cancel' = NoCall
    /\ UNCHANGED <<cancel_at, model_loaded>>
    /\ IF driver[t].must_cancel \/ worker[t].pc = "cancelled"
       THEN /\ Put(t, [TaskOf(t) EXCEPT !.status = "cancelled"])
            /\ worker' = Released(t)
            /\ EndRun(t, "cancelled", batches)
       ELSE IF worker[t].pc = "raised"
       THEN /\ Put(t, CemFailed(TaskOf(t)))
            /\ worker' = Released(t)
            /\ EndRun(t, "error", batches)
       ELSE IF IsPlan(t)
       THEN /\ Put(t, [TaskOf(t) EXCEPT !.result = "result", !.status = "completed"])
            /\ worker' = Released(t)
            /\ EndRun(t, "return", batches)
       ELSE /\ UNCHANGED <<tasks, trajectory_tasks>>
            /\ worker' = [worker EXCEPT ![t] = Job("predict", "run")]
            /\ Suspend(t, "await_predict", batches)
    /\ UNCHANGED sub_vars

\* planner.py 822-856: the await of predict_next ends; its exception is logged
\* and the rollout goes on (`except Exception` does not catch a CancelledError).
AfterPredict(t) ==
    /\ t \in Created
    /\ driver[t].pc = "await_predict"
    /\ driver[t].must_cancel \/ worker[t].pc \in {"ok", "raised"}
    /\ last_cancel' = NoCall
    /\ UNCHANGED cancel_at
    /\ IF driver[t].must_cancel
       THEN RaiseCancelled(t)
       ELSE /\ UNCHANGED <<tasks, trajectory_tasks, model_loaded>>
            /\ worker' = [worker EXCEPT ![t] = Job("distance", "run")]
            /\ Suspend(t, "await_distance", batches)
    /\ UNCHANGED sub_vars

\* planner.py 854-883: the await of compute_distance ends, the step is recorded
\* and the loop goes to its next step.
AfterDistance(t) ==
    /\ t \in Created
    /\ driver[t].pc = "await_distance"
    /\ driver[t].must_cancel \/ worker[t].pc = "ok"
    /\ last_cancel' = NoCall
    /\ UNCHANGED cancel_at
    /\ IF driver[t].must_cancel
       THEN RaiseCancelled(t)
       ELSE /\ UNCHANGED model_loaded
            /\ LoopTop(t, TaskOf(t), driver[t].step + 1)
    /\ UNCHANGED sub_vars

\* planner.py 889-954: the await of the final distance ends; the result is
\* stored and the status becomes "completed".
AfterFinal(t) ==
    /\ t \in Created
    /\ driver[t].pc = "await_final"
    /\ driver[t].must_cancel \/ worker[t].pc = "ok"
    /\ last_cancel' = NoCall
    /\ UNCHANGED cancel_at
    /\ IF driver[t].must_cancel
       THEN RaiseCancelled(t)
       ELSE /\ UNCHANGED model_loaded
            /\ Put(t, [TaskOf(t) EXCEPT !.result = "result", !.status = "completed"])
            /\ worker' = [worker EXCEPT ![t] = NoJob]
            /\ EndRun(t, "return", batches)
    /\ UNCHANGED sub_vars

\* planning.py 47-58 / 229-238: the await of the websocket send ends.  A
\* cancellation of the driver while broadcast_completed is awaited is caught by
\* `except asyncio.CancelledError`, which broadcasts "cancelled"; in a handler it
\* propagates; the finally block drops the entry of the tracking table.
AfterSend(t) ==
    /\ t \in Created
    /\ driver[t].pc \in {"sending", "sending_handler"}
    /\ last_cancel' = NoCall
    /\ UNCHANGED <<cancel_at, tasks, trajectory_tasks, worker, model_loaded>>
    /\ IF driver[t].must_cancel /\ driver[t].pc = "sending"
       THEN EndWs(t, "cancelled")
       ELSE /\ driver' = [driver EXCEPT ![t].pc = "done", ![t].must_cancel = FALSE]
            /\ background_tasks' = background_tasks \ {t}
            /\ UNCHANGED <<terminal_events, batches>>
    /\ UNCHANGED sub_vars

\* batch.py 152-155: asyncio.wait_for(run_planning(...), timeout) expires while
\* run_planning is suspended, and cancels it.
Timeout(t) ==
    /\ t \in Created
    /\ driver[t].wrapper = "batch"
    /\ driver[t].pc \in {"sleep_loading", "await_inference", "sleep_encoding", "await_cem"}
    /\ ~driver[t].timed_out
    /\ driver' = [driver EXCEPT ![t].must_cancel = TRUE, ![t].timed_out = TRUE]
    /\ last_cancel' = NoCall
    /\ UNCHANGED <<tasks, trajectory_tasks, background_tasks, worker, terminal_events,
                   model_loaded, batches, cancel_at>>
    /\ UNCHANGED sub_vars

\* batch.py 100-107: the first run of _run_batch.
BatchStart(b) ==
    /\ b \in DOMAIN batches
    /\ batches[b].runner = "unstarted"
    /\ batches' = [batches EXCEPT ![b].runner = "running", ![b].status = "running"]
    /\ last_cancel' = NoCall
    /\ UNCHANGED <<tasks, trajectory_tasks, background_tasks, driver, worker,
                   terminal_events, model_loaded, cancel_at>>
    /\ UNCHANGED sub_vars

\* batch.py 126-133: every child has ended; the final status.
BatchFinish(b) ==
    /\ b \in DOMAIN batches
    /\ batches[b].runner = "running"
    /\ \A t \in DOMAIN batches[b].task_status : driver[t].pc = "done"
    /\ batches' = [batches EXCEPT
                     ![b].runner = "finished",
                     ![b].completed_at = TRUE,
                     ![b].status = IF batches[b].failed_tasks = 0 THEN "completed"
                                   ELSE IF batches[b].completed_tasks = 0 THEN "failed"
                                   ELSE "partial"]
    /\ last_cancel' = NoCall
    /\ UNCHANGED <<tasks, trajectory_tasks, background_tasks, driver, worker,
                   terminal_events, model_loaded, cancel_at>>
    /\ UNCHANGED sub_vars

-----------------------------------------------------------------------------
(* Executor threads                                                        *)

\* The variables no executor thread writes.
WorkerFrame ==
    /\ last_cancel' = NoCall
    /\ UNCHANGED <<background_tasks, driver, terminal_events, batches, cancel_at>>

\* planner.py 72-87 (_get_inference), 696-724 (encode_and_get_distance),
\* 827-831 (predict_next), 847-848 (compute_distance), 889-891 (final distance):
\* a job that runs to its end in one piece, returning or raising.
\* _get_inference calls load_model only when the model is not loaded, and a
\* load that succeeds leaves it loaded; the two distances are plain tensor
\* arithmetic.
WorkerRun(t) ==
    /\ t \in Created
    /\ worker[t].job \in {"load", "encode", "predict", "distance", "final"}
    /\ worker[t].pc = "run"
    /\ \E ok \in (IF \/ worker[t].job \in {"distance", "final"}
                     \/ worker[t].job = "load" /\ model_loaded
                  THEN {TRUE} ELSE BOOLEAN) :
          /\ worker' = [worker EXCEPT ![t].pc = IF ok THEN "ok" ELSE "raised"]
          /\ model_loaded' = (model_loaded \/ (ok /\ worker[t].job = "load"))
    /\ UNCHANGED <<tasks, trajectory_tasks>>
    /\ WorkerFrame
    /\ UNCHANGED sub_vars

\* vjepa2.py 1240-1290: run_cem encodes the two images and sets up the action
\* distribution before its first iteration.
WorkerEncodeImages(t) ==
    /\ t \in Created
    /\ worker[t].job = "cem"
    /\ worker[t].pc = "encode"
    /\ \E ok \in BOOLEAN :
          worker' = [worker EXCEPT ![t] =
                        IF ok THEN [job |-> "cem", pc |-> "eval", iter |-> 1]
                        ELSE Job("cem", "raised")]
    /\ UNCHANGED <<tasks, trajectory_tasks, model_loaded>>
    /\ WorkerFrame
    /\ UNCHANGED sub_vars

\* vjepa2.py 1291-1332 and planner.py 448-449 / 756-757: one iteration samples
\* its batch of actions, scores it and refits the distribution (the scoring may
\* raise), then calls the progress callback, which first reads task.cancelled
\* and raises CancelledError out of run_cem when it is set.
WorkerEvaluate(t) ==
    /\ t \in Created
    /\ worker[t].job = "cem"
    /\ worker[t].pc = "eval"
    /\ \E ok \in BOOLEAN :
          worker' = [worker EXCEPT ![t] =
                        IF ~ok THEN Job("cem", "raised")
                        ELSE IF TaskOf(t).cancelled THEN Job("cem", "cancelled")
                        ELSE [@ EXCEPT !.pc = "cb_write"]]
    /\ UNCHANGED <<tasks, trajectory_tasks, model_loaded>>
    /\ WorkerFrame
    /\ UNCHANGED sub_vars

\* planner.py 451-477 / 759-788 and vjepa2.py 1334-1347: the callback stores
\* the progress record and schedules its delivery; run_cem then goes to its next
\* iteration, or returns after the last one or on early convergence (looked for
\* once `iteration >= convergence_window`, iteration counted from 0).
WorkerCallbackWrite(t) ==
    /\ t \in Created
    /\ worker[t].job = "cem"
    /\ worker[t].pc = "cb_write"
    /\ Put(t, [TaskOf(t) EXCEPT !.progress = RunningProgress(driver[t].step, worker[t].iter)])
    /\ \E converged \in (IF worker[t].iter - 1 >= convergence_window
                         THEN BOOLEAN ELSE {FALSE}) :
          worker' = [worker EXCEPT ![t] =
                        IF converged \/ worker[t].iter = TaskOf(t).iterations
                        THEN Job("cem", "ok")
                        ELSE [job |-> "cem", pc |-> "eval", iter |-> worker[t].iter + 1]]
    /\ UNCHANGED model_loaded
    /\ WorkerFrame
    /\ UNCHANGED sub_vars

-----------------------------------------------------------------------------
(* Eviction: PlannerService._cleanup_old_tasks and the calls that run it.   *)
(* The registries are kept in insertion order (OrderedDict); a task's age   *)
(* is counted from start_time, which the driver sets on its first run.      *)

\* PlannerService.MAX_TASKS (100 in planner.py:62), scaled down.
MAX_TASKS == 2
\* PlannerService.TASK_TTL_SECONDS (3600 in planner.py:63), in clock ticks.
TASK_TTL_SECONDS == 2
\* The clock runs from 1 to MaxClock; identities 1..MaxUuid are handed out.
MaxClock == 4
MaxUuid == 4

\* A ev_tasks entry: the task dataclass with its id and start_time
\* (start_time = 0 stands for None).
Entry(id, task) ==
    [id |-> id, start_time |-> 0, status |-> task.status,
     cancelled |-> task.cancelled, progress |-> task.progress,
     result |-> task.result, error |-> task.error]

Ids(reg) == {reg[i].id : i \in 1..Len(reg)}

\* planner.py 96-97: terminal, started, and older than the TTL.
Expired(e, now) ==
    /\ e.status \in Terminal
    /\ e.start_time # 0
    /\ now - e.start_time > TASK_TTL_SECONDS

\* Fault: a TTL pass that only looks at completed tasks.
TTLPassCompletedOnly(reg, now) ==
    SelectSeq(reg, LAMBDA e : ~(Expired(e, now) /\ e.status = "completed"))

\* Fault: no TTL pass at all.
TTLPassNone(reg, now) == reg

\* planner.py 94-102: the TTL pass.
TTLPass(reg, now) == SelectSeq(reg, LAMBDA e : ~Expired(e, now))

\* list.sort(key=start_time or 0) is stable: an entry goes behind the entries
\* already placed whose start_time is not later.
InsertByStart(e, sorted) ==
    LET k == Cardinality({i \in 1..Len(sorted) : sorted[i].start_time <= e.start_time})
    IN SubSeq(sorted, 1, k) \o <<e>> \o SubSeq(sorted, k + 1, Len(sorted))

RECURSIVE SortedByStart(_)
SortedByStart(s) ==
    IF s = <<>> THEN <<>>
    ELSE InsertByStart(s[Len(s)], SortedByStart(SubSeq(s, 1, Len(s) - 1)))

\* Fault: a size pass that takes the oldest tasks whatever their status.
SizePassAnyStatus(reg) ==
    IF Len(reg) > MAX_TASKS
    THEN LET sorted == SortedByStart(reg)
             victims == {sorted[i].id : i \in 1..(Len(reg) - MAX_TASKS)}
         IN SelectSeq(reg, LAMBDA e : e.id \notin victims)
    ELSE reg

\* planner.py 104-116: over the limit, the terminal tasks sorted by start_time
\* lose their first len - MAX_TASKS (a slice: all of them when there are fewer).
SizePass(reg) ==
    IF Len(reg) > MAX_TASKS
    THEN LET completed_tasks ==
                SortedByStart(SelectSeq(reg, LAMBDA e : e.status \in Terminal))
             to_remove == Len(reg) - MAX_TASKS
             victims == {completed_tasks[i].id :
                            i \in {n \in 1..Len(completed_tasks) : n <= to_remove}}
         IN SelectSeq(reg, LAMBDA e : e.id \notin victims)
    ELSE reg

\* planner.py 89-116.
cleanup_old_tasks(reg, now) == SizePass(TTLPass(reg, now))

\* Fault: the new task is put in front of the others.
CreateAtFront(reg, now, id, task) ==
    <<Entry(id, task)>> \o cleanup_old_tasks(reg, now)

\* planner.py 118-130: cleanup, then the new task at the end of the order.
CreateIn(reg, now, id, task) ==
    Append(cleanup_old_tasks(reg, now), Entry(id, task))

EvictInit ==
    /\ ev_tasks = <<>>
    /\ ev_trajectory_tasks = <<>>
    /\ clock = 1
    /\ next_uuid = 1

\* PlannerService.create_task.
EvCreateTask ==
    /\ next_uuid <= MaxUuid
    /\ ev_tasks' = CreateIn(ev_tasks, clock, next_uuid, PlanningTask(MinIter))
    /\ next_uuid' = next_uuid + 1
    /\ UNCHANGED <<ev_trajectory_tasks, clock>>
    /\ UNCHANGED not_evict_vars

\* PlannerService.create_trajectory_task (planner.py 555-564): the cleanup it
\* runs is that of planner.tasks.
EvCreateTrajectoryTask ==
    /\ next_uuid <= MaxUuid
    /\ ev_tasks' = cleanup_old_tasks(ev_tasks, clock)
    /\ ev_trajectory_tasks' =
          Append(ev_trajectory_tasks, Entry(next_uuid, TrajectoryTask(MinIter, 1)))
    /\ next_uuid' = next_uuid + 1
    /\ UNCHANGED clock
    /\ UNCHANGED not_evict_vars

\* planner.py 191-192: the first run of run_planning on a registered task.
EvStart(i) ==
    /\ i \in 1..Len(ev_tasks)
    /\ ev_tasks[i].status = "queued"
    /\ ev_tasks' = [ev_tasks EXCEPT ![i].status = "running", ![i].start_time = clock]
    /\ UNCHANGED <<ev_trajectory_tasks, clock, next_uuid>>
    /\ UNCHANGED not_evict_vars

\* planner.py 604-605: the first run of run_trajectory_planning.
EvTrajectoryStart(i) ==
    /\ i \in 1..Len(ev_trajectory_tasks)
    /\ ev_trajectory_tasks[i].status = "queued"
    /\ ev_trajectory_tasks' =
          [ev_trajectory_tasks EXCEPT ![i].status = "running", ![i].start_time = clock]
    /\ UNCHANGED <<ev_tasks, clock, next_uuid>>
    /\ UNCHANGED not_evict_vars

\* PlannerService.cancel_task on a running task.
EvCancel(i) ==
    /\ i \in 1..Len(ev_tasks)
    /\ CanCancel(ev_tasks, i)
    /\ ev_tasks' = [ev_tasks EXCEPT ![i] = MarkCancelled(@)]
    /\ UNCHANGED <<ev_trajectory_tasks, clock, next_uuid>>
    /\ UNCHANGED not_evict_vars

\* PlannerService.cancel_trajectory_task on a running task.
EvTrajectoryCancel(i) ==
    /\ i \in 1..Len(ev_trajectory_tasks)
    /\ CanCancel(ev_trajectory_tasks, i)
    /\ ev_trajectory_tasks' = [ev_trajectory_tasks EXCEPT ![i] = MarkCancelled(@)]
    /\ UNCHANGED <<ev_tasks, clock, next_uuid>>
    /\ UNCHANGED not_evict_vars

\* The end of run_planning: status "failed" with an error, or the result,
\* status "completed" and the cleanup of planner.py 547.
EvEnd(i) ==
    /\ i \in 1..Len(ev_tasks)
    /\ ev_tasks[i].status = "running"
    /\ \E completed \in BOOLEAN :
          IF completed
          THEN /\ ev_tasks' = cleanup_old_tasks(
                      [ev_tasks EXCEPT ![i].status = "completed", ![i].result = "result"],
                      clock)
          ELSE /\ ev_tasks' = [ev_tasks EXCEPT ![i].status = "failed",
                                               ![i].error = "Planning execution failed"]
    /\ UNCHANGED <<ev_trajectory_tasks, clock, next_uuid>>
    /\ UNCHANGED not_evict_vars

\* The end of run_trajectory_planning; the cleanup of planner.py 952 is that of
\* planner.tasks.
EvTrajectoryEnd(i) ==
    /\ i \in 1..Len(ev_trajectory_tasks)
    /\ ev_trajectory_tasks[i].status = "running"
    /\ \E completed \in BOOLEAN :
          IF completed
          THEN /\ ev_trajectory_tasks' =
                     [ev_trajectory_tasks EXCEPT ![i].status = "completed",
                                                 ![i].result = "result"]
               /\ ev_tasks' = cleanup_old_tasks(ev_tasks, clock)
          ELSE /\ ev_trajectory_tasks' =
                     [ev_trajectory_tasks EXCEPT ![i].status = "failed",
                                                 ![i].error = "Planning execution failed"]
               /\ UNCHANGED ev_tasks
    /\ UNCHANGED <<clock, next_uuid>>
    /\ UNCHANGED not_evict_vars

\* Time passes.
Tick ==
    /\ clock < MaxClock
    /\ clock' = clock + 1
    /\ UNCHANGED <<ev_tasks, ev_trajectory_tasks, next_uuid>>
    /\ UNCHANGED not_evict_vars

EvictNext ==
    \/ EvCreateTask
    \/ EvCreateTrajectoryTask
    \/ \E i \in 1..MaxUuid : EvStart(i)
    \/ \E i \in 1..MaxUuid : EvTrajectoryStart(i)
    \/ \E i \in 1..MaxUuid : EvCancel(i)
    \/ \E i \in 1..MaxUuid : EvTrajectoryCancel(i)
    \/ \E i \in 1..MaxUuid : EvEnd(i)
    \/ \E i \in 1..MaxUuid : EvTrajectoryEnd(i)
    \/ Tick

-----------------------------------------------------------------------------
(* The CEM optimizer: the iteration loop of VJEPA2Inference.run_cem with    *)
(* the callback run_planning.cem_progress.  Energies are counted in units   *)
(* of 0.0005, so that rounding to three decimals is a real conversion; the  *)
(* scoring function is any function into the levels below, or NaN.          *)

\* Scores range over 0..MaxEnergy; a run has MinIter..MaxCemIter iterations.
MaxEnergy == 5
MaxCemIter == 5

Num(n) == [kind |-> "num", v |-> n]
Inf == [kind |-> "inf", v |-> 0]
NaN == [kind |-> "nan", v |-> 0]

Scores == {Num(n) : n \in 0..MaxEnergy} \cup {NaN}

\* IEEE a < b.
Less(a, b) ==
    CASE a.kind = "nan" \/ b.kind = "nan" -> FALSE
      [] a.kind = "inf" -> FALSE
      [] b.kind = "inf" -> TRUE
      [] OTHER -> a.v < b.v

\* IEEE a <= b.
Leq(a, b) ==
    CASE a.kind = "nan" \/ b.kind = "nan" -> FALSE
      [] b.kind = "inf" -> TRUE
      [] a.kind = "inf" -> FALSE
      [] OTHER -> a.v <= b.v

\* round(x, 3): to the nearest thousandth, a tie to the even one; inf stays inf.
Round3(x) ==
    IF x.kind # "num" THEN x
    ELSE LET lo == x.v \div 2
         IN Num(IF x.v % 2 = 0 THEN x.v
                ELSE IF lo % 2 = 0 THEN 2 * lo ELSE 2 * lo + 2)

\* Fault: the best energy follows the latest iteration.
TrackLatest(best_energy, elite_energy) ==
    IF elite_energy.kind = "nan" THEN best_energy ELSE elite_energy

\* vjepa2.py 1327-1330: best_energy moves only to a strictly lower energy.
TrackBest(best_energy, elite_energy) ==
    IF Less(elite_energy, best_energy) THEN elite_energy ELSE best_energy

\* Fault: the test never finds convergence.
NeverConverged(history) == FALSE

\* Fault: the improvement is taken over convergence_window iterations, from the
\* entry before the window.
ConvergedOverFour(history) ==
    LET first == history[Len(history) - convergence_window]
        last == history[Len(history)]
    IN /\ first.kind = "num"
       /\ last.kind = "num"
       /\ 100 * first.v <= first.v + 100 * last.v

\* vjepa2.py 1335-1338 with convergence_threshold = 0.01:
\* (recent[0] - recent[-1]) / (recent[0] + 1e-6) < 0.01.  With inf in the
\* window the quotient is NaN and the test is false.
Converged(history) ==
    LET first == history[Len(history) - convergence_window + 1]
        last == history[Len(history)]
    IN /\ first.kind = "num"
       /\ last.kind = "num"
       /\ 100 * first.v <= first.v + 100 * last.v

NoEvent == [iteration |-> 0, energy_history |-> <<>>]

NoResult == [returned |-> FALSE, energy |-> Inf, energy_history |-> <<>>, executed |-> 0]

\* Before run_cem is called.
CemInit ==
    /\ cem = [pc |-> "idle", iteration |-> 0, num_iterations |-> MinIter,
              best_energy |-> Inf, energy_history |-> <<>>, converged |-> FALSE,
              scores |-> {}]
    /\ cb_energy_history = <<>>
    /\ progress_event = NoEvent
    /\ cem_result = NoResult
    /\ cem_cancelled = FALSE

\* planner.py 481-490 and vjepa2.py 1282-1291: run_cem is called with the
\* request's iterations and stands at the top of its loop.
CemStart ==
    /\ cem.pc = "idle"
    /\ \E n \in MinIter..MaxCemIter :
          cem' = [cem EXCEPT !.pc = "loop", !.num_iterations = n]
    /\ UNCHANGED <<cb_energy_history, progress_event, cem_result, cem_cancelled>>
    /\ UNCHANGED not_cem_vars

\* Fault: the history gets its entry only when the best energy moved.
RecordOnImprovement(history, before, after) ==
    IF before = after THEN history ELSE Append(history, Round3(after))

\* vjepa2.py 1332.
Record(history, before, after) == Append(history, Round3(after))

\* vjepa2.py 1291-1341: one iteration up to its callback.  The scores enter
\* through elite_energies[0], the lowest energy of the iteration; cem.scores
\* keeps the values it has taken, for the properties.
CemIterate ==
    /\ cem.pc = "loop"
    /\ cem.iteration < cem.num_iterations
    /\ \E elite_energy \in Scores :
          LET best == TrackBest(cem.best_energy, elite_energy)
              history == Record(cem.energy_history, cem.best_energy, best)
          IN cem' = [cem EXCEPT
                        !.pc = "callback",
                        !.best_energy = best,
                        !.energy_history = history,
                        !.scores = @ \cup {elite_energy},
                        !.converged = /\ cem.iteration >= convergence_window
                                      /\ Converged(history)]
    /\ UNCHANGED <<cb_energy_history, progress_event, cem_result, cem_cancelled>>
    /\ UNCHANGED not_cem_vars

\* planner.py 445-477, called with iteration + 1: a cancelled task raises,
\* otherwise the callback appends to its own history and builds the progress.
\* After it run_cem breaks (vjepa2.py 1342) or goes to the next iteration.
CemCallback ==
    /\ cem.pc = "callback"
    /\ IF cem_cancelled
       THEN /\ cem' = [cem EXCEPT !.pc = "raised"]
            /\ UNCHANGED <<cb_energy_history, progress_event>>
       ELSE /\ cb_energy_history' = Append(cb_energy_history, Round3(cem.best_energy))
            /\ progress_event' = [iteration |-> cem.iteration + 1,
                                  energy_history |-> cb_energy_history']
            /\ cem' = [cem EXCEPT
                          !.iteration = @ + 1,
                          !.pc = IF cem.converged \/ cem.iteration + 1 = cem.num_iterations
                                 THEN "return" ELSE "loop"]
    /\ UNCHANGED <<cem_result, cem_cancelled>>
    /\ UNCHANGED not_cem_vars

\* vjepa2.py 1372-1388: the result of run_cem.
CemReturn ==
    /\ cem.pc = "return"
    /\ cem_result' = [returned |-> TRUE,
                      energy |-> Round3(cem.best_energy),
                      energy_history |-> cem.energy_history,
                      executed |-> cem.iteration]
    /\ cem' = [cem EXCEPT !.pc = "done"]
    /\ UNCHANGED <<cb_energy_history, progress_event, cem_cancelled>>
    /\ UNCHANGED not_cem_vars

\* PlannerService.cancel_task while run_cem is in its thread.
CemCancel ==
    /\ cem.pc \in {"loop", "callback"}
    /\ ~cem_cancelled
    /\ cem_cancelled' = TRUE
    /\ UNCHANGED <<cem, cb_energy_history, progress_event, cem_result>>
    /\ UNCHANGED not_cem_vars

CemNext ==
    \/ CemStart
    \/ CemIterate
    \/ CemCallback
    \/ CemReturn
    \/ CemCancel

-----------------------------------------------------------------------------
(* Delivery of progress events: cem_progress hands each event to the event  *)
(* loop (call_soon_threadsafe, then create_task), and the task it becomes   *)
(* runs WebSocketManager.send_message over the list of the task's sockets.  *)
(* The loop starts the tasks in the order the events were handed over.      *)
(* send_json is a suspension point: the message goes to the socket when it  *)
(* is called, the caller may then be suspended, and callers suspended on    *)
(* one socket resume in the order they called.  Every send succeeds, and a  *)
(* socket in the list is connected.                                         *)

\* The sockets subscribed to the task, and the events of one run.
MaxSockets == 2
MaxEvents == 3

Sockets == 1..MaxSockets
Events == 1..MaxEvents

NotSending == [pc |-> "none", index |-> 0]

\* WebSocketManager.__init__ and connect: every socket is subscribed, in order.
DeliverInit ==
    /\ connections = [i \in 1..MaxSockets |-> i]
    /\ received = [s \in Sockets |-> <<>>]
    /\ emitted = 0
    /\ ready = <<>>
    /\ senders = [e \in Events |-> NotSending]
    /\ waiting = [s \in Sockets |-> <<>>]

\* planner.py 472-477: the worker hands the next event to the loop.
Emit ==
    /\ emitted < MaxEvents
    /\ emitted' = emitted + 1
    /\ ready' = Append(ready, emitted + 1)
    /\ UNCHANGED <<connections, received, senders, waiting>>
    /\ UNCHANGED not_deliver_vars

\* websocket.py 68-83, one run of the task between two suspensions: the list
\* iterator stands before position `from`; the task sends to the sockets at
\* from..upto without being suspended, and is then suspended in the send at
\* upto or, at the end of the list, returns.  It cannot pass a socket other
\* tasks are suspended on.  `queues` is waiting without this task.
RunLoop(e, from, queues) ==
    IF from > Len(connections)
    THEN /\ senders' = [senders EXCEPT ![e] = [pc |-> "done", index |-> from]]
         /\ waiting' = queues
         /\ UNCHANGED received
    ELSE \E upto \in from..Len(connections), suspended \in BOOLEAN :
            /\ \A j \in from..(upto - 1) : queues[connections[j]] = <<>>
            /\ suspended \/ (upto = Len(connections) /\ queues[connections[upto]] = <<>>)
            /\ received' = [s \in Sockets |->
                               IF \E j \in from..upto : connections[j] = s
                               THEN Append(received[s], e) ELSE received[s]]
            /\ IF suspended
               THEN /\ senders' = [senders EXCEPT
                                      ![e] = [pc |-> "awaiting", index |-> upto + 1]]
                    /\ waiting' = [queues EXCEPT ![connections[upto]] = Append(@, e)]
               ELSE /\ senders' = [senders EXCEPT
                                      ![e] = [pc |-> "done", index |-> upto + 1]]
                    /\ waiting' = queues

\* planning.py 39-40 and websocket.py 51-68: the loop starts the oldest progress
\* task; send_message returns 0 when the task has no sockets left.
StartSend ==
    /\ ready # <<>>
    /\ ready' = Tail(ready)
    /\ RunLoop(Head(ready), 1, waiting)
    /\ UNCHANGED <<connections, emitted>>
    /\ UNCHANGED not_deliver_vars

\* websocket.py 78: the send a task is suspended in completes, and the task
\* goes on with the for loop over the list as it is now.
Resume(s) ==
    /\ waiting[s] # <<>>
    /\ RunLoop(Head(waiting[s]), senders[Head(waiting[s])].index,
               [waiting EXCEPT ![s] = Tail(@)])
    /\ UNCHANGED <<connections, emitted, ready>>
    /\ UNCHANGED not_deliver_vars

\* main.py 133-136 and websocket.py 29-35: a client goes away and its endpoint
\* removes the socket from the list.
Disconnect(s) ==
    /\ \E i \in 1..Len(connections) : connections[i] = s
    /\ connections' = SelectSeq(connections, LAMBDA x : x # s)
    /\ UNCHANGED <<received, emitted, ready, senders, waiting>>
    /\ UNCHANGED not_deliver_vars

DeliverNext ==
    \/ Emit
    \/ StartSend
    \/ \E s \in Sockets : Resume(s)
    \/ \E s \in Sockets : Disconnect(s)

-----------------------------------------------------------------------------
(* The CEM optimizer with its batch: one iteration of run_cem samples       *)
(* num_samples actions, clips them, scores them, selects the elite and      *)
(* moves the best pair.  Action components are counted in units of 0.00005, *)
(* so that rounding to four decimals is a real conversion; the declared     *)
(* bounds are multiples of 0.0001, as ACTION_LOW_AC, GRIPPER_LOW and        *)
(* ACTION_LOW are.  The refit of action_mean and action_std only moves the  *)
(* distribution the next batch is drawn from; np.random.normal can return   *)
(* any value under any such distribution, so the batch is drawn from        *)
(* RawValues throughout.  A run is too short for the early stop, which      *)
(* needs more than convergence_window iterations.                           *)

\* A batch has up to MaxSamples actions, a run up to MaxBatchIter iterations;
\* an energy is NaN or in 1..MaxBatchEnergy; a drawn component is within MaxRaw.
MaxSamples == 2
MaxBatchIter == 2
MaxBatchEnergy == 2
MaxRaw == 5

Max(a, b) == IF a >= b THEN a ELSE b

Min(a, b) == IF a <= b THEN a ELSE b

\* The two kinds of dimension of the AC action space: position and gripper.
Dims == {1, 2}

\* vjepa2.py 1247-1258: action_low and action_high, per dimension.
action_low == <<-2, -4>>

action_high == <<2, 4>>

\* What np.random.normal may draw for one component.
RawValues == {-MaxRaw, 1, MaxRaw}

BatchScores == {Num(n) : n \in 1..MaxBatchEnergy} \cup {NaN}

\* Fault: the batch is scored as drawn.
ClipNone(raw) == raw

\* vjepa2.py 1305: np.clip(actions, action_low, action_high, out=actions).
Clip(raw) == [d \in Dims |-> Min(Max(raw[d], action_low[d]), action_high[d])]

\* round(float(x), 4) of each component: a tie goes to the even neighbour.
Round4(action) ==
    [d \in Dims |->
        IF action[d] % 2 = 0 THEN action[d]
        ELSE IF ((action[d] - 1) \div 2) % 2 = 0 THEN action[d] - 1
             ELSE action[d] + 1]

\* vjepa2.py 1294-1296: 0.20 * (1 - progress) + 0.05 * progress of num_samples,
\* with progress = iteration / max(1, num_iterations - 1), in exact arithmetic.
NumElite(iteration, num_iterations, num_samples) ==
    LET d == Max(1, num_iterations - 1)
    IN Max(1, (num_samples * (20 * (d - iteration) + 5 * iteration)) \div (100 * d))

\* The order of np.argpartition and np.argsort: NaN after every number.
SortsBefore(a, b) ==
    /\ a.kind # "nan"
    /\ b.kind = "nan" \/ a.v < b.v

\* vjepa2.py 1315-1317: the num_elite indices of lowest energy, lowest first;
\* equal energies come in any order.
EliteChoices(en, num_elite) ==
    {e \in [1..num_elite -> 1..Len(en)] :
        /\ \A i, j \in 1..num_elite : i < j =>
              /\ e[i] # e[j]
              /\ ~SortsBefore(en[e[j]], en[e[i]])
        /\ \A k \in 1..Len(en) :
              (\A i \in 1..num_elite : e[i] # k)
                 => \A i \in 1..num_elite : ~SortsBefore(en[k], en[e[i]])}

\* Fault: the best pair is the first of the elite of the latest iteration.
TrackEliteOfIteration(best, first) == first

\* vjepa2.py 1327-1330: the pair moves only to a strictly lower energy.
TrackBestPair(best, first) ==
    IF Less(first.energy, best.energy) THEN first ELSE best

\* The lowest energy of a batch with the actions that got it, merged into the
\* lowest so far.
LowestWith(low, acts, en) ==
    LET nums == {i \in 1..Len(en) : en[i].kind = "num"}
        least == {i \in nums : \A j \in nums : en[i].v <= en[j].v}
        here == {acts[i] : i \in least}
        m == IF nums = {} THEN Inf ELSE en[CHOOSE i \in least : TRUE]
    IN IF Less(m, low.energy) THEN [energy |-> m, actions |-> here]
       ELSE IF m.kind = "num" /\ m = low.energy
            THEN [energy |-> m, actions |-> low.actions \cup here]
            ELSE low

Zeros == [d \in Dims |-> 0]

NoBatchResult == [returned |-> FALSE, action |-> Zeros, energy |-> Inf]

\* Before run_cem is called.
BatchInit ==
    /\ opt = [pc |-> "idle", iteration |-> 0, num_iterations |-> 1, num_samples |-> 1,
              best_energy |-> Inf, best_action |-> Zeros]
    /\ actions = <<>>
    /\ energies = <<>>
    /\ sorted_elite_idx = <<>>
    /\ lowest = [energy |-> Inf, actions |-> {}]
    /\ opt_result = NoBatchResult

\* vjepa2.py 1208, 1284-1286: the call of run_cem with its num_samples and
\* num_iterations; best_action starts as zeros, best_energy as inf.
OptStart ==
    /\ opt.pc = "idle"
    /\ \E n \in 1..MaxBatchIter, k \in 1..MaxSamples :
          opt' = [opt EXCEPT !.pc = "loop", !.num_iterations = n, !.num_samples = k]
    /\ UNCHANGED <<actions, energies, sorted_elite_idx, lowest, opt_result>>
    /\ UNCHANGED not_batch_vars

\* vjepa2.py 1291-1332: one iteration.  np.argpartition raises ValueError when
\* its kth, num_elite, is not below the number of energies.
OptIterate ==
    /\ opt.pc = "loop"
    /\ opt.iteration < opt.num_iterations
    /\ \E raw \in [1..opt.num_samples -> [Dims -> RawValues]],
          en \in [1..opt.num_samples -> BatchScores] :
          LET num_elite == NumElite(opt.iteration, opt.num_iterations, opt.num_samples)
          IN /\ actions' = [i \in 1..opt.num_samples |-> Clip(raw[i])]
             /\ energies' = en
             /\ lowest' = LowestWith(lowest, actions', en)
             /\ IF num_elite >= opt.num_samples
                THEN /\ sorted_elite_idx' = <<>>
                     /\ opt' = [opt EXCEPT !.pc = "raised"]
                ELSE \E e \in EliteChoices(en, num_elite) :
                        LET best == TrackBestPair(
                                       [energy |-> opt.best_energy,
                                        action |-> opt.best_action],
                                       [energy |-> en[e[1]],
                                        action |-> actions'[e[1]]])
                        IN /\ sorted_elite_idx' = e
                           /\ opt' = [opt EXCEPT !.pc = "iterated",
                                                 !.best_energy = best.energy,
                                                 !.best_action = best.action]
    /\ UNCHANGED opt_result
    /\ UNCHANGED not_batch_vars

\* vjepa2.py 1291: the next turn of the loop; the batch of the last one is dead.
OptEndIteration ==
    /\ opt.pc = "iterated"
    /\ opt.iteration + 1 < opt.num_iterations
    /\ opt' = [opt EXCEPT !.pc = "loop", !.iteration = @ + 1]
    /\ actions' = <<>>
    /\ energies' = <<>>
    /\ sorted_elite_idx' = <<>>
    /\ UNCHANGED <<lowest, opt_result>>
    /\ UNCHANGED not_batch_vars

\* vjepa2.py 1291, 1377-1380: the loop is exhausted and the result carries the
\* rounded best pair.
OptReturn ==
    /\ opt.pc = "iterated"
    /\ opt.iteration + 1 = opt.num_iterations
    /\ opt' = [opt EXCEPT !.pc = "returned"]
    /\ opt_result' = [returned |-> TRUE,
                      action |-> Round4(opt.best_action),
                      energy |-> Round3(opt.best_energy)]
    /\ UNCHANGED <<actions, energies, sorted_elite_idx, lowest>>
    /\ UNCHANGED not_batch_vars

BatchNext ==
    \/ OptStart
    \/ OptIterate
    \/ OptEndIteration
    \/ OptReturn

-----------------------------------------------------------------------------
(* The rollout statistics of run_trajectory_planning: the distance to the   *)
(* goal after each step, the progress ratio of the step and the trend of    *)
(* the whole trajectory.  Distances are counted in units of 0.01; the       *)
(* embeddings give any distance, so each is drawn from DistanceLevels.      *)

\* A trajectory has up to MaxRolloutSteps steps.
MaxRolloutSteps == 3

\* planner.py 859: initial_distance > 0.01.
NearZero == 1

DistanceLevels == {0, 1, 2, 19, 20, 21, 30, 50, 80, 100}

\* Fault: the ratio is the share of the distance that is left.
RatioOfDistanceLeft(current_distance, initial_distance) ==
    IF initial_distance > NearZero
    THEN [num |-> current_distance, den |-> initial_distance]
    ELSE [num |-> 1, den |-> 1]

\* planner.py 859-862: the progress ratio as the fraction num / den.
ProgressRatio(current_distance, initial_distance) ==
    IF initial_distance > NearZero
    THEN [num |-> Max(0, initial_distance - current_distance), den |-> initial_distance]
    ELSE [num |-> 1, den |-> 1]

\* planner.py 872: round(progress_ratio, 4), in units of 0.0001; a tie goes to
\* the even neighbour.
RoundRatio(ratio) ==
    LET q == (10000 * ratio.num) \div ratio.den
        r == (10000 * ratio.num) % ratio.den
    IN IF 2 * r < ratio.den THEN q
       ELSE IF 2 * r > ratio.den THEN q + 1
       ELSE IF q % 2 = 0 THEN q ELSE q + 1

\* planner.py 907-918.
EnergyTrend(completed, final_distance, initial_distance) ==
    IF completed >= 2
    THEN IF 100 * final_distance < 95 * initial_distance THEN "decreasing"
         ELSE IF 100 * final_distance > 105 * initial_distance THEN "increasing"
         ELSE "stable"
    ELSE "unknown"

\* Before run_trajectory_planning is called.
RolloutInit ==
    rollout = [pc |-> "idle", num_steps |-> 1, initial_distance |-> 0,
               completed_steps |-> <<>>, final_distance |-> 0,
               energy_trend |-> "none"]

\* planner.py 698-730: the images are encoded and give the initial distance.
RolloutStart ==
    /\ rollout.pc = "idle"
    /\ \E n \in 1..MaxRolloutSteps, d \in DistanceLevels :
          rollout' = [rollout EXCEPT !.pc = "steps", !.num_steps = n,
                                     !.initial_distance = d]
    /\ UNCHANGED not_rollout_vars

\* planner.py 845-874: after the roll forward of a step, its distance to the
\* goal and its progress ratio are recorded.
RolloutStep ==
    /\ rollout.pc = "steps"
    /\ Len(rollout.completed_steps) < rollout.num_steps
    /\ \E current_distance \in DistanceLevels :
          LET progress_ratio == ProgressRatio(current_distance, rollout.initial_distance)
          IN rollout' = [rollout EXCEPT
                 !.completed_steps =
                     Append(@, [distance_to_goal |-> current_distance,
                                ratio |-> progress_ratio,
                                progress_ratio |-> RoundRatio(progress_ratio)])]
    /\ UNCHANGED not_rollout_vars

\* planner.py 884-918: the final distance is that of the embedding the last
\* step left, and the trend is classified.
RolloutFinish ==
    /\ rollout.pc = "steps"
    /\ Len(rollout.completed_steps) = rollout.num_steps
    /\ LET final_distance ==
              rollout.completed_steps[Len(rollout.completed_steps)].distance_to_goal
       IN rollout' = [rollout EXCEPT
              !.pc = "done",
              !.final_distance = final_distance,
              !.energy_trend = EnergyTrend(Len(rollout.completed_steps),
                                           final_distance, rollout.initial_distance)]
    /\ UNCHANGED not_rollout_vars

RolloutNext ==
    \/ RolloutStart
    \/ RolloutStep
    \/ RolloutFinish

-----------------------------------------------------------------------------
(* WebSocketManager.send_message for one task, with sockets whose send can  *)
(* raise and whose client can leave the CONNECTED state.  The call runs on  *)
(* the event loop: it is atomic up to each await of send_json, where the    *)
(* websocket endpoints run in between.                                      *)

\* Up to MaxWs sockets subscribe to the task.
MaxWs == 3

WsSockets == 1..MaxWs

NoKey == [present |-> FALSE, list |-> <<>>]

NoSend == [pc |-> "none", index |-> 0, websocket |-> 0, detached |-> FALSE,
           disconnected |-> <<>>, success_count |-> 0, sent |-> {}, failed |-> {},
           result |-> 0]

\* websocket.py 29-35: disconnect removes the socket and deletes the key of an
\* empty list.
disconnect(conn, websocket) ==
    IF conn.present
    THEN LET list == SelectSeq(conn.list, LAMBDA x : x # websocket)
         IN IF list = <<>> THEN NoKey ELSE [present |-> TRUE, list |-> list]
    ELSE conn

RECURSIVE DisconnectAll(_, _)
\* websocket.py 78-79 and 46-48: disconnect for each socket of a list.
DisconnectAll(conn, sockets) ==
    IF sockets = <<>> THEN conn
    ELSE DisconnectAll(disconnect(conn, Head(sockets)), Tail(sockets))

\* websocket.py 37-49: every socket that is not CONNECTED is disconnected.
cleanup_stale_connections(conn, state) ==
    DisconnectAll(conn, SelectSeq(conn.list, LAMBDA x : state[x] # "CONNECTED"))

RECURSIVE SendLoop(_, _, _)
\* websocket.py 66-81: the loop from its position c.index up to the next await
\* of send_json, or through the clean-up to the return.  The loop iterates
\* the list object it started on, which is empty once its key was deleted.
SendLoop(c, conn, state) ==
    LET list == IF c.detached THEN <<>> ELSE conn.list
    IN IF c.index > Len(list)
       THEN [call |-> [c EXCEPT !.pc = "returned", !.result = c.success_count],
             conn |-> DisconnectAll(conn, c.disconnected)]
       ELSE IF state[list[c.index]] # "CONNECTED"
            THEN SendLoop([c EXCEPT !.disconnected = Append(@, list[c.index]),
                                    !.failed = @ \cup {list[c.index]},
                                    !.index = @ + 1],
                          conn, state)
            ELSE [call |-> [c EXCEPT !.pc = "awaiting", !.websocket = list[c.index]],
                  conn |-> conn]

\* Before any socket has connected.
SendInit ==
    /\ ws_connections = NoKey
    /\ client_state = [x \in WsSockets |-> "CONNECTING"]
    /\ send_call = NoSend
    /\ ws_seen = {}
    /\ ws_left = {}

\* websocket.py 22-27 from main.py 94: a new socket is accepted and appended.
WsConnect(x) ==
    /\ x \notin ws_seen
    /\ ws_seen' = ws_seen \cup {x}
    /\ client_state' = [client_state EXCEPT ![x] = "CONNECTED"]
    /\ ws_connections' = [present |-> TRUE, list |-> Append(ws_connections.list, x)]
    /\ UNCHANGED <<send_call, ws_left>>
    /\ UNCHANGED not_send_vars

\* The client of a registered socket goes away: its client_state leaves CONNECTED.
ClientGone(x) ==
    /\ \E i \in 1..Len(ws_connections.list) : ws_connections.list[i] = x
    /\ client_state[x] = "CONNECTED"
    /\ client_state' = [client_state EXCEPT ![x] = "DISCONNECTED"]
    /\ UNCHANGED <<ws_connections, send_call, ws_seen, ws_left>>
    /\ UNCHANGED not_send_vars

\* main.py 133-134: the endpoint of a socket ends and unregisters it.
EndpointDisconnect(x) ==
    /\ \E i \in 1..Len(ws_connections.list) : ws_connections.list[i] = x
    /\ ws_connections' = disconnect(ws_connections, x)
    /\ ws_left' = ws_left \cup {x}
    /\ send_call' = IF send_call.pc = "awaiting" /\ ~ws_connections'.present
                    THEN [send_call EXCEPT !.detached = TRUE]
                    ELSE send_call
    /\ UNCHANGED <<client_state, ws_seen>>
    /\ UNCHANGED not_send_vars

\* websocket.py 51-67: send_message up to its first await.  Without the key it
\* returns 0; after the clean-up of stale sockets it reads
\* self.connections[task_id], which raises KeyError when the clean-up has
\* deleted the key.
SendMessage ==
    /\ send_call.pc \in {"none", "returned", "raised"}
    /\ IF ~ws_connections.present
       THEN /\ send_call' = [NoSend EXCEPT !.pc = "returned"]
            /\ UNCHANGED ws_connections
       ELSE LET conn == cleanup_stale_connections(ws_connections, client_state)
            IN IF ~conn.present
               THEN /\ send_call' = [NoSend EXCEPT !.pc = "raised"]
                    /\ ws_connections' = conn
               ELSE LET run == SendLoop([NoSend EXCEPT !.index = 1], conn, client_state)
                    IN /\ send_call' = run.call
                       /\ ws_connections' = run.conn
    /\ UNCHANGED <<client_state, ws_seen, ws_left>>
    /\ UNCHANGED not_send_vars

\* websocket.py 73-77: send_json returns or raises, and the loop goes on.
SendJsonDone(ok) ==
    /\ send_call.pc = "awaiting"
    /\ LET c == IF ok
                THEN [send_call EXCEPT !.success_count = @ + 1,
                                       !.sent = @ \cup {send_call.websocket},
                                       !.index = @ + 1]
                ELSE [send_call EXCEPT !.disconnected = Append(@, send_call.websocket),
                                       !.failed = @ \cup {send_call.websocket},
                                       !.index = @ + 1]
           run == SendLoop(c, ws_connections, client_state)
       IN /\ send_call' = run.call
          /\ ws_connections' = run.conn
    /\ UNCHANGED <<client_state, ws_seen, ws_left>>
    /\ UNCHANGED not_send_vars

SendNext ==
    \/ \E x \in WsSockets : WsConnect(x)
    \/ \E x \in WsSockets : ClientGone(x)
    \/ \E x \in WsSockets : EndpointDisconnect(x)
    \/ SendMessage
    \/ \E ok \in BOOLEAN : SendJsonDone(ok)

-----------------------------------------------------------------------------
(* The confidence of a CEM run, computed after the loop from best_energy,   *)
(* energy_history[0] and the mean of action_std.  Energies are counted in   *)
(* units of 0.01, standard deviations in units of 0.005 and confidences in  *)
(* units of 0.0005, which makes every term of the sum an integer.  Python's *)
(* max(a, b) is b only when b > a, and min(a, b) is b only when b < a, so a *)
(* NaN in second place is dropped.                                          *)

EnergyLevels == {Num(n) : n \in {0, 1, 3, 100, 299, 500, 1000, 1500}} \cup {Inf}

StdLevels == {Num(n) : n \in {0, 1, 100, 399, 400, 401, 1000}} \cup {NaN}

\* vjepa2.py 1357: max(0, initial_energy - best_energy) in units of 0.01;
\* inf - inf is NaN.
EnergyReduction(initial_energy, best_energy) ==
    CASE initial_energy.kind = "inf" /\ best_energy.kind = "inf" -> Num(0)
      [] initial_energy.kind = "inf" -> Inf
      [] best_energy.kind = "inf" -> Num(0)
      [] OTHER -> Num(Max(0, initial_energy.v - best_energy.v))

\* vjepa2.py 1360: max(0, 1.0 - best_energy / 10.0).
EnergyConfidence(best_energy) ==
    IF best_energy.kind = "inf" THEN 0 ELSE Max(0, 2000 - 2 * best_energy.v)

\* vjepa2.py 1363: min(0.2, energy_reduction / 5.0).
ConvergenceBonus(energy_reduction) ==
    IF energy_reduction.kind = "inf" THEN 400 ELSE Min(400, 4 * energy_reduction.v)

\* vjepa2.py 1366: min(0.2, final_std * 0.1).
StabilityPenalty(final_std) ==
    IF final_std.kind = "nan" THEN 400 ELSE Min(400, final_std.v)

\* Fault: the weighted sum is returned as it is.
Unclamped(sum) == sum

\* vjepa2.py 1368: min(0.98, max(0.1, sum)).
Clamp(sum) == Min(1960, Max(200, sum))

\* vjepa2.py 1368-1370 and 1379: the clamped sum, rounded to three decimals.
Confidence(best_energy, initial_energy, final_std) ==
    Round3(Num(Clamp(EnergyConfidence(best_energy) \div 2 + 600
                       + ConvergenceBonus(EnergyReduction(initial_energy, best_energy))
                       - StabilityPenalty(final_std)))).v

\* Before the loop of run_cem is over.
ConfInit ==
    conf = [pc |-> "loop", best_energy |-> Inf, initial_energy |-> Inf,
            final_std |-> Num(0), confidence |-> 0]

\* vjepa2.py 1291-1347: the loop ends with some best energy, first history
\* entry and standard deviation.
ConfLoopEnds ==
    /\ conf.pc = "loop"
    /\ \E b \in EnergyLevels, i \in EnergyLevels, d \in StdLevels :
          conf' = [conf EXCEPT !.pc = "after_loop", !.best_energy = b,
                               !.initial_energy = i, !.final_std = d]
    /\ UNCHANGED not_conf_vars

\* vjepa2.py 1355-1379: the confidence of the result.
ConfReturn ==
    /\ conf.pc = "after_loop"
    /\ conf' = [conf EXCEPT
                   !.pc = "returned",
                   !.confidence = Confidence(conf.best_energy, conf.initial_energy,
                                             conf.final_std)]
    /\ UNCHANGED not_conf_vars

ConfNext ==
    \/ ConfLoopEnds
    \/ ConfReturn

-----------------------------------------------------------------------------
(* The step loop of run_trajectory_planning for one task: the embedding the *)
(* trajectory is at, what each step planned from and measured, and the      *)
(* progress events in the order they are stored.  Embeddings are numbered   *)
(* in the order they are made: 0 is the encoded current image, and every    *)
(* roll forward that succeeds makes the next one.                           *)

\* request.num_steps ranges over 1..MaxTrajSteps; request.iterations is
\* TrajIterations.
MaxTrajSteps == 3
TrajIterations == 2

\* The distances to the goal an embedding can have (in hundredths).
TrajDistances == {1, 50, 100}

NoTrajProgress ==
    [status |-> "None", current_step |-> 0, total_steps |-> 0, iteration |-> 0,
     completed_steps |-> 0]

\* planner.py 620-636: the loading_model event.
TrajLoadingProgress(num_steps) ==
    [status |-> "loading_model", current_step |-> 0, total_steps |-> num_steps,
     iteration |-> 0, completed_steps |-> 0]

\* planner.py 666-678: the encoding event.
TrajEncodingProgress(num_steps) ==
    [status |-> "encoding", current_step |-> 0, total_steps |-> num_steps,
     iteration |-> 0, completed_steps |-> 0]

\* Fault: the callback reports a position inside its own step only.
StepLocal(step_idx) == 0

\* planner.py 753: `step=step_idx` binds the index of the step to its callback.
StepBound(step_idx) == step_idx

\* planner.py 769-781: the event of cem_progress_for_step; completed_steps is
\* carried as the length of the copied list.
TrajRunningProgress(step, num_steps, iteration, completed_steps) ==
    [status |-> "running", current_step |-> step, total_steps |-> num_steps,
     iteration |-> iteration, completed_steps |-> Len(completed_steps)]

\* Fault: steps numbered from 1.
TrajectoryStepFromOne(step_idx, planned_from, measured_on, current_distance, initial_distance) ==
    [step |-> step_idx + 1, planned_from |-> planned_from, measured_on |-> measured_on,
     distance_to_goal |-> current_distance,
     progress_ratio |-> RoundRatio(ProgressRatio(current_distance, initial_distance))]

\* planner.py 859-873: the record of a step, with the embedding its CEM
\* planned from and the one its distance was measured on.
TrajectoryStep(step_idx, planned_from, measured_on, current_distance, initial_distance) ==
    [step |-> step_idx, planned_from |-> planned_from, measured_on |-> measured_on,
     distance_to_goal |-> current_distance,
     progress_ratio |-> RoundRatio(ProgressRatio(current_distance, initial_distance))]

\* Fault: a failed roll forward falls back to the embedding of the image.
FirstEmbedding(trajectory_embedding) == 0

\* planner.py 838-841: a failed roll forward leaves trajectory_embedding as it is.
UnrolledEmbedding(trajectory_embedding) == trajectory_embedding

NoTrajResult == [set |-> FALSE, steps |-> <<>>]

\* task.progress = progress, and the event is scheduled for delivery.
TrajEmit(t, progress) == [t EXCEPT !.progress = progress, !.emitted = @ + 1]

\* The driver ends: by return, or by an exception leaving the coroutine.
TrajEnd(t) == [t EXCEPT !.pc = "ended", !.must_cancel = FALSE]

\* planner.py 742-744 and 790-810: the top of the loop for step s, or the
\* final distance after the last step.
TrajLoopTop(t, s) ==
    IF s < t.num_steps
    THEN IF t.cancelled
         THEN TrajEnd(t)
         ELSE [t EXCEPT !.pc = "await_cem", !.step_idx = s, !.cem = "running",
                        !.iteration = 0, !.cem_embedding = t.trajectory_embedding]
    ELSE [t EXCEPT !.pc = "await_final"]

\* Before run_trajectory_planning is called.
TrajInit ==
    traj = [pc |-> "idle", num_steps |-> 1, step_idx |-> 0, iteration |-> 0,
            cem |-> "none", trajectory_embedding |-> 0, cem_embedding |-> 0,
            emb_distance |-> <<>>, completed_steps |-> <<>>, rolled |-> FALSE,
            status |-> "queued", cancelled |-> FALSE, must_cancel |-> FALSE,
            result |-> NoTrajResult, progress |-> NoTrajProgress, emitted |-> 0]

\* planner.py 603-654: the driver starts, reports the model load when the
\* model is not loaded, and loads the two images.
TrajStart ==
    /\ traj.pc = "idle"
    /\ \E n \in 1..MaxTrajSteps, loaded \in BOOLEAN, images \in BOOLEAN :
          LET t0 == [traj EXCEPT !.status = "running", !.num_steps = n]
              t1 == IF loaded THEN t0 ELSE TrajEmit(t0, TrajLoadingProgress(n))
          IN traj' = IF images
                     THEN [t1 EXCEPT !.pc = "await_inference"]
                     ELSE TrajEnd([t1 EXCEPT !.status = "failed"])
    /\ UNCHANGED not_traj_vars

\* planner.py 656-684: the await of _get_inference ends; the encoding event.
TrajAfterInference ==
    /\ traj.pc = "await_inference"
    /\ IF traj.must_cancel
       THEN traj' = TrajEnd(traj)
       ELSE \E ok \in BOOLEAN :
               traj' = IF ok
                       THEN [TrajEmit(traj, TrajEncodingProgress(traj.num_steps))
                                EXCEPT !.pc = "await_encode"]
                       ELSE TrajEnd(traj)
    /\ UNCHANGED not_traj_vars

\* planner.py 725-741: the await of encode_and_get_distance ends; the loop starts.
TrajAfterEncode ==
    /\ traj.pc = "await_encode"
    /\ IF traj.must_cancel
       THEN traj' = TrajEnd(traj)
       ELSE \E ok \in BOOLEAN, initial_distance \in TrajDistances :
               traj' = IF ok
                       THEN TrajLoopTop([traj EXCEPT !.trajectory_embedding = 0,
                                                     !.emb_distance = <<initial_distance>>], 0)
                       ELSE TrajEnd([traj EXCEPT !.status = "failed"])
    /\ UNCHANGED not_traj_vars

\* planner.py 753-788: cem_progress_for_step, called by the worker after each
\* iteration; the job returns after the callback of the last iteration.
cem_progress_for_step ==
    /\ traj.cem = "running"
    /\ traj' = IF traj.cancelled
               THEN [traj EXCEPT !.cem = "cancelled"]
               ELSE [TrajEmit(traj, TrajRunningProgress(StepBound(traj.step_idx),
                                                        traj.num_steps,
                                                        traj.iteration + 1,
                                                        traj.completed_steps))
                        EXCEPT !.iteration = @ + 1,
                               !.cem = IF traj.iteration + 1 = TrajIterations
                                       THEN "ok" ELSE "running"]
    /\ UNCHANGED not_traj_vars

\* The scoring of an iteration raises in the worker.
TrajCemRaises ==
    /\ traj.cem = "running"
    /\ traj' = [traj EXCEPT !.cem = "raised"]
    /\ UNCHANGED not_traj_vars

\* planner.py 799-818: the await of the CEM job ends.
TrajAfterCem ==
    /\ traj.pc = "await_cem"
    /\ traj.must_cancel \/ traj.cem \in {"ok", "raised", "cancelled"}
    /\ traj' = IF traj.must_cancel \/ traj.cem = "cancelled"
               THEN TrajEnd([traj EXCEPT !.status = "cancelled"])
               ELSE IF traj.cem = "raised"
               THEN TrajEnd([traj EXCEPT !.status = "failed"])
               ELSE [traj EXCEPT !.pc = "await_predict", !.cem = "none"]
    /\ UNCHANGED not_traj_vars

\* planner.py 820-841: the await of predict_next ends: the trajectory moves to
\* the predicted embedding, or the exception is logged and the loop goes on.
TrajAfterPredict ==
    /\ traj.pc = "await_predict"
    /\ IF traj.must_cancel
       THEN traj' = TrajEnd(traj)
       ELSE \E ok \in BOOLEAN, distance \in TrajDistances :
               traj' = IF ok
                       THEN [traj EXCEPT !.pc = "await_distance", !.rolled = TRUE,
                                         !.trajectory_embedding = Len(traj.emb_distance),
                                         !.emb_distance = Append(@, distance)]
                       ELSE [traj EXCEPT !.pc = "await_distance", !.rolled = FALSE,
                                         !.trajectory_embedding = UnrolledEmbedding(@)]
    /\ UNCHANGED not_traj_vars

\* planner.py 843-883: the await of compute_distance ends; the step is recorded
\* and the loop goes to its next step.
TrajAfterDistance ==
    /\ traj.pc = "await_distance"
    /\ traj' = IF traj.must_cancel
               THEN TrajEnd(traj)
               ELSE LET current_distance == traj.emb_distance[traj.trajectory_embedding + 1]
                        step_result == TrajectoryStep(traj.step_idx, traj.cem_embedding,
                                                      traj.trajectory_embedding,
                                                      current_distance, traj.emb_distance[1])
                    IN TrajLoopTop([traj EXCEPT !.completed_steps = Append(@, step_result)],
                                   traj.step_idx + 1)
    /\ UNCHANGED not_traj_vars

\* planner.py 885-954: the await of the final distance ends; the result is
\* stored and the status becomes "completed".
TrajAfterFinal ==
    /\ traj.pc = "await_final"
    /\ traj' = IF traj.must_cancel
               THEN TrajEnd(traj)
               ELSE TrajEnd([traj EXCEPT !.result = [set |-> TRUE,
                                                     steps |-> traj.completed_steps],
                                         !.status = "completed"])
    /\ UNCHANGED not_traj_vars

\* planner.py 570-577: cancel_trajectory_task on the running task.
TrajCancel ==
    /\ traj.status = "running"
    /\ traj' = [traj EXCEPT !.cancelled = TRUE, !.status = "cancelled"]
    /\ UNCHANGED not_traj_vars

\* planning.py 274-279: a create call cancels the driver while it is suspended.
TrajSupersede ==
    /\ traj.pc \in {"await_inference", "await_encode", "await_cem", "await_predict",
                    "await_distance", "await_final"}
    /\ ~traj.must_cancel
    /\ traj' = [traj EXCEPT !.must_cancel = TRUE]
    /\ UNCHANGED not_traj_vars

TrajNext ==
    \/ TrajStart
    \/ TrajAfterInference
    \/ TrajAfterEncode
    \/ cem_progress_for_step
    \/ TrajCemRaises
    \/ TrajAfterCem
    \/ TrajAfterPredict
    \/ TrajAfterDistance
    \/ TrajAfterFinal
    \/ TrajCancel
    \/ TrajSupersede

-----------------------------------------------------------------------------
(* run_planning from its start to the end of the model load, with the task  *)
(* poll_download_progress it creates when the model has to be downloaded,   *)
(* and the download that runs in the worker thread of _get_inference.       *)

\* The download is DownloadTotal chunks long; the poller is followed through
\* at most MaxPollWrites of its writes to task.progress.
DownloadTotal == 2
MaxPollWrites == 2

\* _download_progress has no entry for the model.
NoInfo == [present |-> FALSE, downloaded |-> 0]

\* Before run_planning is called.
PollInit ==
    poll = [driver |-> "idle", must_cancel |-> FALSE, status |-> "queued",
            poll_task |-> "none", poll_must_cancel |-> FALSE, progress_info |-> NoInfo,
            download_progress |-> NoInfo, loader |-> "idle", downloads |-> FALSE,
            writes |-> 0]

\* planner.py 190-376: the driver starts; with a model that is neither loaded,
\* cached nor checkpointed it creates poll_task; it loads the images and hands
\* _get_inference to the executor.
PollRunStart ==
    /\ poll.driver = "idle"
    /\ \E available \in BOOLEAN, images \in BOOLEAN :
          poll' = [poll EXCEPT
                      !.status = IF images THEN "running" ELSE "failed",
                      !.poll_task = IF available THEN "none" ELSE "created",
                      !.downloads = ~available,
                      !.driver = IF images THEN "await_inference" ELSE "over",
                      !.loader = IF images THEN "running" ELSE "idle"]
    /\ UNCHANGED not_poll_vars

\* vjepa2.py 165-177 and 207-210: the download in the worker thread publishes
\* how far it is.
LoaderDownload ==
    /\ poll.loader = "running"
    /\ poll.downloads
    /\ IF poll.download_progress.present
       THEN /\ poll.download_progress.downloaded < DownloadTotal
            /\ poll' = [poll EXCEPT !.download_progress.downloaded = @ + 1]
       ELSE poll' = [poll EXCEPT !.download_progress = [present |-> TRUE, downloaded |-> 0]]
    /\ UNCHANGED not_poll_vars

\* vjepa2.py 212-222 and planner.py 83-87: the download ends (its entry is
\* cleared in the finally block) and load_model returns or raises.
LoaderEnds ==
    /\ poll.loader = "running"
    /\ \E ok \in BOOLEAN :
          /\ (ok /\ poll.downloads) =>
                 (poll.download_progress.present
                  /\ poll.download_progress.downloaded = DownloadTotal)
          /\ poll' = [poll EXCEPT !.download_progress = NoInfo,
                                  !.loader = IF ok THEN "loaded" ELSE "raised"]
    /\ UNCHANGED not_poll_vars

\* planner.py 285-355: poll_download_progress from one resumption to its next
\* sleep or to its end: cancelled at its await; the test for a complete
\* download on the entry read before the sleep; the loop test on task.status;
\* the read of the entry, and a write of task.progress when there is an entry
\* and half a second has passed.
poll_download_progress ==
    /\ poll.poll_task \in {"created", "sleeping"}
    /\ IF poll.poll_must_cancel
       THEN poll' = [poll EXCEPT !.poll_task = "done"]
       ELSE IF /\ poll.poll_task = "sleeping"
               /\ poll.progress_info.present
               /\ poll.progress_info.downloaded >= DownloadTotal
       THEN poll' = [poll EXCEPT !.poll_task = "done"]
       ELSE IF poll.status # "running"
       THEN poll' = [poll EXCEPT !.poll_task = "done"]
       ELSE \E half_second_passed \in
                  (IF poll.download_progress.present /\ poll.writes < MaxPollWrites
                   THEN BOOLEAN ELSE {FALSE}) :
               poll' = [poll EXCEPT
                           !.progress_info = poll.download_progress,
                           !.writes = IF half_second_passed THEN @ + 1 ELSE @,
                           !.poll_task = "sleeping"]
    /\ UNCHANGED not_poll_vars

\* planner.py 375-382: the await of _get_inference ends.  A CancelledError and
\* an exception of the load leave the driver here; after a load that returned
\* the driver cancels poll_task and awaits it.
PollAfterInference ==
    /\ poll.driver = "await_inference"
    /\ poll.must_cancel \/ poll.loader \in {"loaded", "raised"}
    /\ poll' = IF poll.must_cancel \/ poll.loader = "raised"
               THEN [poll EXCEPT !.driver = "over", !.must_cancel = FALSE]
               ELSE IF poll.poll_task = "none"
               THEN [poll EXCEPT !.driver = "loaded"]
               ELSE [poll EXCEPT !.driver = "await_poll",
                                 !.poll_must_cancel = (poll.poll_task # "done")]
    /\ UNCHANGED not_poll_vars

\* planner.py 383-386: `await poll_task` ends; its CancelledError is passed over.
PollAfterPollTask ==
    /\ poll.driver = "await_poll"
    /\ poll.poll_task = "done"
    /\ poll' = [poll EXCEPT !.driver = "loaded", !.must_cancel = FALSE]
    /\ UNCHANGED not_poll_vars

\* planner.py 387-560: the rest of the run, to its end.
PollRunEnds ==
    /\ poll.driver = "loaded"
    /\ \E status \in {"completed", "failed", "cancelled"} :
          poll' = [poll EXCEPT !.driver = "over",
                               !.status = IF poll.status = "running" THEN status ELSE @]
    /\ UNCHANGED not_poll_vars

\* planning.py 101-112 / batch.py 152-155: the driver is cancelled while it is
\* suspended.
PollSupersede ==
    /\ poll.driver \in {"await_inference", "await_poll"}
    /\ ~poll.must_cancel
    /\ poll' = [poll EXCEPT !.must_cancel = TRUE]
    /\ UNCHANGED not_poll_vars

\* planner.py 137-143: cancel_task on the running task.
PollCancelTask ==
    /\ poll.status = "running"
    /\ poll' = [poll EXCEPT !.status = "cancelled"]
    /\ UNCHANGED not_poll_vars

PollNext ==
    \/ PollRunStart
    \/ LoaderDownload
    \/ LoaderEnds
    \/ poll_download_progress
    \/ PollAfterInference
    \/ PollAfterPollTask
    \/ PollRunEnds
    \/ PollSupersede
    \/ PollCancelTask

-----------------------------------------------------------------------------

Next ==
    \/ create_planning_task
    \/ create_trajectory_task
    \/ create_batch
    \/ \E id \in TaskIds : cancel_task(id)
    \/ \E id \in TaskIds : cancel_trajectory_task(id)
    \/ \E t \in TaskIds : DriverStart(t)
    \/ \E t \in TaskIds : AfterLoadingSleep(t)
    \/ \E t \in TaskIds : AfterInference(t)
    \/ \E t \in TaskIds : AfterEncodingSleep(t)
    \/ \E t \in TaskIds : AfterEncode(t)
    \/ \E t \in TaskIds : AfterCem(t)
    \/ \E t \in TaskIds : AfterPredict(t)
    \/ \E t \in TaskIds : AfterDistance(t)
    \/ \E t \in TaskIds : AfterFinal(t)
    \/ \E t \in TaskIds : AfterSend(t)
    \/ \E t \in TaskIds : Timeout(t)
    \/ \E b \in TaskIds : BatchStart(b)
    \/ \E b \in TaskIds : BatchFinish(b)
    \/ \E t \in TaskIds : WorkerRun(t)
    \/ \E t \in TaskIds : WorkerEncodeImages(t)
    \/ \E t \in TaskIds : WorkerEvaluate(t)
    \/ \E t \in TaskIds : WorkerCallbackWrite(t)

\* The batch routes alone: POST /batch and POST /batch/{id}/cancel, whose
\* cancel_task calls are the only ones made, with the drivers and workers of
\* the single-step tasks of the batch.
BatchRunNext ==
    \/ create_batch
    \/ \E b \in TaskIds : cancel_batch(b)
    \/ \E t \in TaskIds : DriverStart(t)
    \/ \E t \in TaskIds : AfterLoadingSleep(t)
    \/ \E t \in TaskIds : AfterInference(t)
    \/ \E t \in TaskIds : AfterEncodingSleep(t)
    \/ \E t \in TaskIds : AfterCem(t)
    \/ \E t \in TaskIds : Timeout(t)
    \/ \E b \in TaskIds : BatchStart(b)
    \/ \E b \in TaskIds : BatchFinish(b)
    \/ \E t \in TaskIds : WorkerRun(t)
    \/ \E t \in TaskIds : WorkerEncodeImages(t)
    \/ \E t \in TaskIds : WorkerEvaluate(t)
    \/ \E t \in TaskIds : WorkerCallbackWrite(t)

\* The lifecycle state after construction, with the component models at rest.
InitAll == Init /\ EvictInit /\ CemInit /\ DeliverInit /\ BatchInit /\ RolloutInit /\ SendInit /\ ConfInit /\ TrajInit /\ PollInit

Spec == InitAll /\ [][Next]_vars

SpecBatchRun == InitAll /\ [][BatchRunNext]_vars

SpecEvict == InitAll /\ [][EvictNext]_evict_vars

SpecCem == InitAll /\ [][CemNext]_cem_vars

SpecDeliver == InitAll /\ [][DeliverNext]_deliver_vars

SpecBatch == InitAll /\ [][BatchNext]_batch_vars

SpecRollout == InitAll /\ [][RolloutNext]_rollout_vars

SpecSend == InitAll /\ [][SendNext]_send_vars

SpecConf == InitAll /\ [][ConfNext]_conf_vars

SpecTraj == InitAll /\ [][TrajNext]_traj_vars

SpecPoll == InitAll /\ [][PollNext]_poll_vars

-----------------------------------------------------------------------------
(* Properties                                                              *)

\* C1: once a task's status is completed, failed or cancelled it never changes
\* to a different value, under every interleaving of cancel_task, the driver
\* and the worker thread.
C1_TerminalStatusIsFinal ==
    [][\A t \in Created :
          TaskOf(t).status \in Terminal => TaskOf(t)'.status = TaskOf(t).status]_vars

\* C2: cancel_task(id) and cancel_trajectory_task(id) return true exactly when
\* the id is in their registry with status "running" at the time of the call,
\* and then set cancelled = true and status = "cancelled"; otherwise they
\* return false.
C2_CancelReturnsTrueIffRunning ==
    [][last_cancel'.op # "none" =>
          LET id == last_cancel'.id
              before == IF last_cancel'.op = "cancel_task" THEN tasks ELSE trajectory_tasks
              after == IF last_cancel'.op = "cancel_task" THEN tasks' ELSE trajectory_tasks'
          IN /\ last_cancel'.ret <=> (id \in DOMAIN before /\ before[id].status = "running")
             /\ last_cancel'.ret => (after[id].cancelled /\ after[id].status = "cancelled")
      ]_vars

\* C2 witness: a cancel call on a running task has returned true and the task
\* is marked cancelled.
C2_Witness ==
    \E id \in DOMAIN trajectory_tasks :
       /\ last_cancel = [op |-> "cancel_trajectory_task", id |-> id, ret |-> TRUE]
       /\ trajectory_tasks[id].cancelled
       /\ trajectory_tasks[id].status = "cancelled"

\* C3: a cancel call on a task that is queued or already terminal leaves every
\* field of that task and the rest of both registries unchanged.
C3_RefusedCancelChangesNothing ==
    [][last_cancel'.op # "none" =>
          LET id == last_cancel'.id
              before == IF last_cancel'.op = "cancel_task" THEN tasks ELSE trajectory_tasks
          IN (id \in DOMAIN before /\ before[id].status \in Terminal \cup {"queued"})
                => (tasks' = tasks /\ trajectory_tasks' = trajectory_tasks)
      ]_vars

\* C3 witness: cancel_task has been called on a completed task, whose result
\* is still there.
C3_Witness ==
    \E id \in DOMAIN tasks :
       /\ last_cancel = [op |-> "cancel_task", id |-> id, ret |-> FALSE]
       /\ tasks[id].status = "completed"
       /\ tasks[id].result = "result"

\* C4: once a task's cancelled flag is true its status is "cancelled" from then
\* on, and neither its progress nor its result is written again.
C4_NoWriteAfterCancel ==
    [][\A t \in Created :
          TaskOf(t).cancelled =>
             /\ TaskOf(t)'.status = "cancelled"
             /\ TaskOf(t)'.progress = TaskOf(t).progress
             /\ TaskOf(t)'.result = TaskOf(t).result]_vars

\* C5: when the cancelled flag is set while the worker scores the batch of
\* iteration k, the batch of iteration k+1 is never sampled or scored, and the
\* driver ends with the cancellation outcome: status "cancelled" and, for a
\* websocket-wrapped driver, the "cancelled" event and no other.
C5_CancelMidIterationEndsCancelled ==
    \A t \in Created :
       cancel_at[t] > 0 =>
          /\ ~(worker[t].job = "cem" /\ worker[t].iter > cancel_at[t])
          /\ driver[t].pc = "done" =>
                /\ TaskOf(t).status = "cancelled"
                /\ driver[t].wrapper = "ws" => terminal_events[t] = <<"cancelled">>

\* C6: a task's status only moves forward in the order queued, loading_model,
\* encoding, running, terminal: no step moves it to an earlier stage.
C6_StatusOnlyMovesForward ==
    [][LET Stage(status) ==
              CASE status = "queued" -> 0
                [] status = "loading_model" -> 1
                [] status = "encoding" -> 2
                [] status = "running" -> 3
                [] status \in Terminal -> 4
       IN \A t \in Created : Stage(TaskOf(t)'.status) >= Stage(TaskOf(t).status)]_vars

\* C6 witness: one task has gone all the way to a terminal status while another
\* is running.
C6_Witness ==
    \E t, u \in Created :
       /\ TaskOf(t).status = "failed"
       /\ driver[t].pc = "done"
       /\ TaskOf(u).status = "running"

\* C7: whenever a driver broadcasts a terminal event the task's status is the
\* matching terminal status, and no task is left in a non-terminal status once
\* its driver has ended, whatever ended it.
C7_TerminalOnBothSurfaces ==
    [][LET StatusFor(event) ==
              CASE event = "completed" -> "completed"
                [] event = "error" -> "failed"
                [] event = "cancelled" -> "cancelled"
       IN \A t \in Created :
             /\ terminal_events'[t] # terminal_events[t] =>
                   TaskOf(t)'.status =
                      StatusFor(terminal_events'[t][Len(terminal_events'[t])])
             /\ driver'[t].pc = "done" => TaskOf(t)'.status \in Terminal]_vars

\* C8: when a create endpoint starts a new task, every tracked execution that
\* is not done is sent a cancellation and leaves the tracking table before the
\* new driver starts; afterwards the table holds exactly the new task.
C8_CreateSupersedesTracked ==
    [][\A new \in TaskIds :
          (new \notin Created /\ new \in Created' /\ driver'[new].wrapper = "ws") =>
             /\ background_tasks' = {new}
             /\ driver'[new].pc = "unstarted"
             /\ \A t \in background_tasks :
                   driver[t].pc # "done" => driver'[t].must_cancel]_vars

\* C8 witness: a second task has just been created while the first was tracked
\* and suspended in its CEM await.
C8_Witness ==
    /\ background_tasks = {2}
    /\ driver[2].pc = "unstarted"
    /\ driver[1].pc = "await_cem"
    /\ driver[1].must_cancel

\* C9: no two tasks' worker threads are encoding or evaluating with the
\* embedding oracle at the same time.
C9_OneOracleUserAtATime ==
    LET UsingOracle(t) ==
           \/ worker[t].job = "encode" /\ worker[t].pc = "run"
           \/ worker[t].job = "cem" /\ worker[t].pc \in {"encode", "eval"}
    IN Cardinality({t \in Created : UsingOracle(t)}) <= 1

\* C10: a task force-cancelled by the batch timeout ends as a cancel_task call
\* would end it: cancelled flag true and status "cancelled".
C10_TimeoutEndsLikeCancel ==
    \A t \in Created :
       (driver[t].timed_out /\ driver[t].pc = "done") =>
          (TaskOf(t).cancelled /\ TaskOf(t).status = "cancelled")

\* C17: in every reachable state a task whose status is "failed" has an error
\* string set.
C17_FailedHasError ==
    \A t \in Created : TaskOf(t).status = "failed" => TaskOf(t).error # "None"

\* C17 witness: a task has failed in its CEM run and carries the error of that
\* failure.
C17_Witness ==
    \E t \in Created :
       /\ TaskOf(t).status = "failed"
       /\ TaskOf(t).error = "Planning execution failed"

C26_SupersededWorkerStops ==
    [][\A t \in Created :
          (/\ driver[t].wrapper = "ws"
           /\ t \notin background_tasks
           /\ worker[t].job = "cem"
           /\ worker[t].pc = "eval")
             => worker'[t].pc # "cb_write"]_vars

\* C27 as stated: whenever the driver takes up a run of CEM whose scoring
\* raised, the task's status becomes "failed" with the error text, and the
\* progress record stays what it was after the iteration before.
C27_ScoringFailureFails ==
    [][\A t \in Created :
          (/\ worker[t] = Job("cem", "raised")
           /\ driver[t].pc = "await_cem"
           /\ driver'[t].pc # "await_cem")
             => /\ TaskOf(t)'.status = "failed"
                /\ TaskOf(t)'.error = "Planning execution failed"
                /\ TaskOf(t)'.progress = TaskOf(t).progress]_vars

\* C27, amended: when the scoring of iteration k raises, the loop is left with
\* task.progress the snapshot of iteration k-1, and nothing writes it
\* afterwards; the driver that takes the failure up sets status "failed" and
\* the error text, unless its asyncio task was cancelled in the meantime, in
\* which case the status becomes "cancelled".
C27_ScoringFailureKeepsProgress ==
    [][\A t \in Created :
          /\ (worker[t].job = "cem" /\ worker[t].pc = "eval"
                 /\ worker'[t] = Job("cem", "raised"))
                => /\ TaskOf(t)'.progress = TaskOf(t).progress
                   /\ worker[t].iter > 1 =>
                         TaskOf(t).progress =
                            RunningProgress(driver[t].step, worker[t].iter - 1)
          /\ worker[t] = Job("cem", "raised")
                => /\ TaskOf(t)'.progress = TaskOf(t).progress
                   /\ (driver[t].pc = "await_cem" /\ driver'[t].pc # "await_cem") =>
                         IF driver[t].must_cancel
                         THEN TaskOf(t)'.status = "cancelled"
                         ELSE /\ TaskOf(t)'.status = "failed"
                              /\ TaskOf(t)'.error = "Planning execution failed"]_vars

\* A task failed by the scoring of its third iteration, with the progress of
\* the second.
C27_Witness ==
    \E t \in Created :
       /\ TaskOf(t).status = "failed"
       /\ TaskOf(t).error = "Planning execution failed"
       /\ TaskOf(t).progress.status = "running"
       /\ TaskOf(t).progress.iteration = 2
       /\ driver[t].pc = "done"

-----------------------------------------------------------------------------
(* Properties of eviction, stated over SpecEvict.                           *)

\* C12: eviction never removes a non-terminal task: whatever its age and the
\* size of the registry, a cleanup keeps every task that is queued or running,
\* and across every step a queued or running task stays in its registry (the
\* one exception is the running task that the step itself completes, which is
\* terminal when the cleanup at the end of its run looks at it).
C12_NonTerminalNeverEvicted ==
    /\ [](\A i \in 1..Len(ev_tasks) :
             ev_tasks[i].status \notin Terminal
                => ev_tasks[i].id \in Ids(cleanup_old_tasks(ev_tasks, clock)))
    /\ [][LET gone == {i \in 1..Len(ev_tasks) : ev_tasks[i].id \notin Ids(ev_tasks')}
          IN /\ \A i \in gone :
                   \/ ev_tasks[i].status \in Terminal
                   \/ /\ ev_tasks[i].status = "running"
                      /\ next_uuid' = next_uuid
                      /\ \A j \in gone \ {i} : ev_tasks[j].status \in Terminal
             /\ \A i \in 1..Len(ev_trajectory_tasks) :
                   ev_trajectory_tasks[i].id \in Ids(ev_trajectory_tasks')
         ]_evict_vars

\* A running task older than the TTL, still registered next to a queued one in
\* a registry over its limit.
C12_Witness ==
    /\ Len(ev_tasks) > MAX_TASKS
    /\ \E i, j \in 1..Len(ev_tasks) :
          /\ ev_tasks[i].status = "running"
          /\ clock - ev_tasks[i].start_time > TASK_TTL_SECONDS
          /\ ev_tasks[j].status = "queued"
          /\ \E k \in 1..Len(ev_tasks) : ev_tasks[k].status \in Terminal

\* C13: after a cleanup pass (a create call, or the end of a completed run) the
\* planning registry holds no terminal task with now - start_time above the
\* TTL, and the TTL pass keeps every terminal task whose age is at most the TTL.
C13_CleanupRemovesExpired ==
    /\ [][LET created == next_uuid' # next_uuid
              completed ==
                 \/ \E i \in 1..Len(ev_tasks) :
                       /\ ev_tasks[i].status = "running"
                       /\ \A j \in 1..Len(ev_tasks') :
                             ev_tasks'[j].id = ev_tasks[i].id
                                => ev_tasks'[j].status = "completed"
                 \/ \E i \in 1..Len(ev_trajectory_tasks) :
                       /\ ev_trajectory_tasks[i].status = "running"
                       /\ ev_trajectory_tasks'[i].status = "completed"
          IN (created \/ completed) =>
                \A j \in 1..Len(ev_tasks') :
                   ~ /\ ev_tasks'[j].status \in Terminal
                     /\ clock' - ev_tasks'[j].start_time > TASK_TTL_SECONDS
         ]_evict_vars
    /\ [](\A i \in 1..Len(ev_tasks) :
             (/\ ev_tasks[i].status \in Terminal
              /\ clock - ev_tasks[i].start_time <= TASK_TTL_SECONDS)
                => ev_tasks[i].id \in Ids(TTLPass(ev_tasks, clock)))

\* A create call has just removed the expired tasks 1 and 2 and kept the
\* terminal task 3, which is not older than the TTL.
C13_Witness ==
    /\ Len(ev_tasks) = 2
    /\ ev_tasks[1].id = 3
    /\ ev_tasks[1].status \in Terminal
    /\ clock - ev_tasks[1].start_time <= TASK_TTL_SECONDS
    /\ ev_tasks[2].id = 4
    /\ ev_tasks[2].status = "queued"
    /\ ev_trajectory_tasks = <<>>
    /\ clock = MaxClock

\* C14: when the registry holds MAX_TASKS + 1 terminal tasks, each older than
\* the TTL, the registry has at most MAX_TASKS entries after the next
\* create_task call.
C14_CreateAfterExpiredFits ==
    [][(/\ next_uuid' # next_uuid
        /\ Len(ev_trajectory_tasks') = Len(ev_trajectory_tasks)
        /\ Len(ev_tasks) = MAX_TASKS + 1
        /\ \A i \in 1..Len(ev_tasks) :
              /\ ev_tasks[i].status \in Terminal
              /\ clock - ev_tasks[i].start_time > TASK_TTL_SECONDS)
          => Len(ev_tasks') <= MAX_TASKS
      ]_evict_vars

\* MAX_TASKS + 1 planning tasks were registered and the task created after them
\* is alone in the registry.
C14_Witness ==
    /\ Len(ev_tasks) = 1
    /\ ev_tasks[1].id = MAX_TASKS + 2
    /\ ev_tasks[1].status = "queued"
    /\ ev_trajectory_tasks = <<>>

\* C15: trajectory tasks are evicted like single-step tasks: after a
\* create_trajectory_task call the trajectory registry holds no terminal task
\* older than the TTL, and it never holds more than MAX_TASKS terminal tasks.
C15_TrajectoryTasksEvicted ==
    /\ [][next_uuid' # next_uuid /\ Len(ev_trajectory_tasks') # Len(ev_trajectory_tasks)
             => \A j \in 1..Len(ev_trajectory_tasks') :
                   ~ /\ ev_trajectory_tasks'[j].status \in Terminal
                     /\ clock' - ev_trajectory_tasks'[j].start_time > TASK_TTL_SECONDS
         ]_evict_vars
    /\ [](Cardinality({i \in 1..Len(ev_trajectory_tasks) :
                          ev_trajectory_tasks[i].status \in Terminal}) <= MAX_TASKS)

\* C16: create_task runs eviction first and then puts a task with a fresh
\* identity, status "queued", cancelled false and no progress, result or error
\* at the end of the insertion order; the task is in the registry after the call.
C16_CreateAppendsFreshQueued ==
    [][(next_uuid' # next_uuid /\ Len(ev_trajectory_tasks') = Len(ev_trajectory_tasks))
          => LET n == Len(ev_tasks')
             IN /\ n >= 1
                /\ ev_tasks'[n].id \notin Ids(ev_tasks)
                /\ ev_tasks'[n].id \notin Ids(ev_trajectory_tasks)
                /\ ev_tasks'[n].status = "queued"
                /\ ev_tasks'[n].cancelled = FALSE
                /\ ev_tasks'[n].progress = NoProgress
                /\ ev_tasks'[n].result = "None"
                /\ ev_tasks'[n].error = "None"
                /\ SubSeq(ev_tasks', 1, n - 1) = cleanup_old_tasks(ev_tasks, clock)
                /\ \A i \in 1..(n - 1) : ev_tasks'[i].id # ev_tasks'[n].id
      ]_evict_vars

\* A create call that evicted an older task and put the new one behind the
\* tasks it kept.
C16_Witness ==
    /\ Len(ev_tasks) = 3
    /\ ev_tasks[1].id = 2
    /\ ev_tasks[3].id = 4
    /\ ev_tasks[3].status = "queued"
    /\ ev_tasks[3].start_time = 0
    /\ ev_tasks[1].status = "running"
    /\ ev_tasks[2].status = "running"


-----------------------------------------------------------------------------
(* Properties of the optimizer, stated over SpecCem.                        *)

\* C19: energy_history is non-increasing, each entry at most the one before
\* it, in the optimizer's own history, in its result and in every progress
\* snapshot, whatever the scoring function returns.
C19_EnergyHistoryNonIncreasing ==
    LET NonIncreasing(h) == \A i \in 1..Len(h) : i > 1 => Leq(h[i], h[i - 1])
    IN /\ NonIncreasing(cem.energy_history)
       /\ NonIncreasing(cem_result.energy_history)
       /\ NonIncreasing(progress_event.energy_history)

\* A finished run whose scores went up and down and whose history fell twice.
C19_Witness ==
    /\ cem_result.returned
    /\ Len(cem_result.energy_history) >= 4
    /\ progress_event.energy_history = cem_result.energy_history
    /\ Less(cem_result.energy_history[2], cem_result.energy_history[1])
    /\ cem_result.energy_history[3] = cem_result.energy_history[2]
    /\ Less(cem_result.energy_history[4], cem_result.energy_history[3])

\* C20: at every progress event the length of progress.energy_history equals
\* progress.iteration, the optimizer's energy_history has one entry for each
\* iteration executed so far, and the length of the result's energy_history
\* equals the number of iterations executed, also when the run stops on
\* convergence.
C20_HistoryLengthIsIterationCount ==
    /\ Len(progress_event.energy_history) = progress_event.iteration
    /\ Len(cem.energy_history) = cem.iteration + (IF cem.pc \in {"callback", "raised"} THEN 1 ELSE 0)
    /\ cem_result.returned =>
          /\ Len(cem_result.energy_history) = cem_result.executed
          /\ cem_result.executed = progress_event.iteration
          /\ cem_result.executed <= cem.num_iterations

\* A run that stopped on convergence before its last iteration.
C20_Witness ==
    /\ cem_result.returned
    /\ cem.converged
    /\ cem_result.executed = convergence_window + 1
    /\ cem_result.executed < cem.num_iterations
    /\ Len(cem_result.energy_history) = convergence_window + 1
    /\ progress_event.iteration = convergence_window + 1


\* C22: with a scoring function whose output is one and the same number for
\* every action, the loop executes at most convergence_window + 1 iterations,
\* whatever num_iterations is.
C22_ConstantScoreStopsByFour ==
    (\E c \in 0..MaxEnergy : cem.scores = {Num(c)})
       => /\ cem.iteration <= convergence_window + 1
          /\ Len(cem.energy_history) <= convergence_window + 1
          /\ cem_result.executed <= convergence_window + 1

\* A run of more than four iterations asked for, stopped after four with the
\* same score in each.
C22_Witness ==
    /\ cem_result.returned
    /\ cem.num_iterations > convergence_window + 1
    /\ cem_result.executed = convergence_window + 1
    /\ \E c \in 0..MaxEnergy : cem.scores = {Num(c)}

\* C28 as stated: from three recorded iterations on, the loop stops after an
\* iteration exactly when (E_old - E_now) / E_old is below 1%, E_old being the
\* recorded energy convergence_window iterations before the current one (looked
\* at where E_old is a positive number, so that the quotient is defined).
C28_StopsOnImprovementOverWindow ==
    (cem.pc = "callback" /\ Len(cem.energy_history) > convergence_window)
       => LET h == cem.energy_history
              E_old == h[Len(h) - convergence_window]
              E_now == h[Len(h)]
          IN (E_old.kind = "num" /\ E_old.v > 0)
                => (cem.converged <=> 100 * E_old.v < E_old.v + 100 * E_now.v)

\* C28, amended: the loop never stops early before four iterations are
\* recorded; from the fourth on it stops after an iteration exactly when
\* (E_old - E_now) / (E_old + 1e-6) is below 1%, E_old being the first of the
\* last convergence_window recorded energies (two iterations before the
\* current one) and E_now the current one; an infinite E_old never stops it.
C28_StopsOnImprovementInWindow ==
    /\ cem.pc = "callback" =>
          LET h == cem.energy_history
          IN cem.converged <=>
                /\ Len(h) > convergence_window
                /\ h[Len(h) - convergence_window + 1].kind = "num"
                /\ 100 * h[Len(h) - convergence_window + 1].v
                      <= h[Len(h) - convergence_window + 1].v + 100 * h[Len(h)].v
    /\ (cem_result.returned /\ cem_result.executed < cem.num_iterations)
          => /\ cem.converged
             /\ cem_result.executed > convergence_window

\* A run stopped after its fourth iteration although the energy fell by half
\* over the last three iterations, and a run may go on after four.
C28_Witness ==
    /\ cem_result.returned
    /\ cem.converged
    /\ cem_result.executed = convergence_window + 1
    /\ cem_result.executed < cem.num_iterations
    /\ cem_result.energy_history[1] = Num(4)
    /\ cem_result.energy_history[2] = Num(2)
    /\ cem_result.energy_history[4] = Num(2)

-----------------------------------------------------------------------------
(* Properties of delivery, stated over SpecDeliver.                         *)

\* C11: a socket subscribed to the task sees the task's progress events in the
\* order the worker emitted them, none out of its place and none missing
\* before a later one: what it has received is events 1, 2, 3, ... in a row.
C11_ProgressDeliveredInOrder ==
    \A s \in Sockets :
       (\E i \in 1..Len(connections) : connections[i] = s)
          => \A n \in 1..Len(received[s]) : received[s][n] = n


-----------------------------------------------------------------------------
(* Properties of the optimizer's batch, under SpecBatch.                    *)

WithinBounds(action) ==
    \A d \in Dims : action_low[d] <= action[d] /\ action[d] <= action_high[d]

\* C21: in every iteration every action of the batch that is scored has each
\* dimension within the declared bounds of that dimension, and so has the best
\* action while the run goes on and the action the run returns.
C21_ActionsWithinBounds ==
    /\ \A i \in 1..Len(actions) : WithinBounds(actions[i])
    /\ WithinBounds(opt.best_action)
    /\ opt_result.returned => WithinBounds(opt_result.action)

\* A run returned an action that lies on the bound of either dimension, which
\* only a clipped draw reaches.
C21_Witness ==
    /\ opt_result.returned
    /\ opt.num_iterations >= 1
    /\ opt_result.action = <<action_high[1], action_low[2]>>

\* C29: no iteration fails to select, whatever num_samples is, and the elite of
\* iteration i of n has max(1, floor(num_samples * (0.20 - 0.15 * i / max(1, n-1))))
\* members, which are the lowest-energy candidates of the batch of that iteration.
C29_EliteIsLowest ==
    /\ opt.pc # "raised"
    /\ opt.pc \in {"iterated", "returned"} =>
          LET d == Max(1, opt.num_iterations - 1)
              count == Max(1, (opt.num_samples * (20 * d - 15 * opt.iteration))
                                 \div (100 * d))
              elite == {sorted_elite_idx[i] : i \in 1..Len(sorted_elite_idx)}
          IN /\ Len(sorted_elite_idx) = count
             /\ Cardinality(elite) = count
             /\ \A i \in elite : \A k \in (1..Len(energies)) \ elite :
                   ~SortsBefore(energies[k], energies[i])

\* C30 as stated: the returned energy is the lowest energy scored in the run
\* and the returned action is a candidate that got it.
C30_ReturnsLowestScored ==
    opt_result.returned
       => /\ opt_result.energy = lowest.energy
          /\ opt_result.action \in lowest.actions

\* C30, amended: while no iteration has raised, the best pair is the lowest
\* energy scored so far with an action that got it (inf and the zero action
\* while no candidate has a number for its energy); the run returns that energy
\* rounded to three decimals and that action rounded to four.
C30_ReturnsRoundedLowest ==
    /\ opt.pc # "raised" =>
          /\ opt.best_energy = lowest.energy
          /\ IF lowest.energy.kind = "num"
             THEN opt.best_action \in lowest.actions
             ELSE opt.best_action = Zeros
    /\ opt_result.returned
          => /\ opt_result.energy = Round3(opt.best_energy)
             /\ opt_result.action = Round4(opt.best_action)

\* A run of two iterations returned the pair of its first iteration: the elite
\* of the last iteration scored higher.
C30_Witness ==
    /\ opt_result.returned
    /\ opt.iteration = 1
    /\ energies[sorted_elite_idx[1]] = Num(2)
    /\ lowest.energy = Num(1)
    /\ opt_result.energy = Round3(Num(1))
    /\ actions[sorted_elite_idx[1]] \notin lowest.actions


-----------------------------------------------------------------------------
(* Properties of the rollout statistics, under SpecRollout.                 *)

\* C23: the progress ratio of every step is max(0, 1 - current_distance /
\* initial_distance), or 1 when initial_distance is at most 0.01; it lies in
\* [0, 1], and so does the rounded ratio the step records; from a step to a
\* later step with a strictly lower distance neither ratio decreases.
C23_ProgressRatio ==
    \A k \in 1..Len(rollout.completed_steps) :
       LET step == rollout.completed_steps[k]
           initial_distance == rollout.initial_distance
       IN /\ IF initial_distance > NearZero
             THEN IF step.distance_to_goal >= initial_distance
                  THEN step.ratio.num = 0
                  ELSE /\ step.ratio.den = initial_distance
                       /\ step.ratio.num = initial_distance - step.distance_to_goal
             ELSE step.ratio.num = step.ratio.den
          /\ step.ratio.den > 0
          /\ 0 <= step.ratio.num /\ step.ratio.num <= step.ratio.den
          /\ 0 <= step.progress_ratio /\ step.progress_ratio <= 10000
          /\ \A j \in 1..(k - 1) :
                LET before == rollout.completed_steps[j]
                IN step.distance_to_goal < before.distance_to_goal
                      => /\ before.ratio.num * step.ratio.den
                               <= step.ratio.num * before.ratio.den
                         /\ before.progress_ratio <= step.progress_ratio

\* The scenario of the claim: initial distance 1.0 and step distances 0.8, 0.5,
\* 0.3 have given the ratios 0.2, 0.5, 0.7.
C23_Witness ==
    /\ rollout.initial_distance = 100
    /\ Len(rollout.completed_steps) = 3
    /\ rollout.completed_steps[1].distance_to_goal = 80
    /\ rollout.completed_steps[2].distance_to_goal = 50
    /\ rollout.completed_steps[3].distance_to_goal = 30
    /\ rollout.completed_steps[1].progress_ratio = 2000
    /\ rollout.completed_steps[2].progress_ratio = 5000
    /\ rollout.completed_steps[3].progress_ratio = 7000

\* C24: a completed trajectory has the trend "unknown" with fewer than 2 steps;
\* otherwise "decreasing" when final_distance <= 95% of initial_distance,
\* "increasing" when final_distance >= 105% of it, and "stable" in between.
C24_TrendAtBoundaries ==
    rollout.pc = "done"
       => rollout.energy_trend =
             IF Len(rollout.completed_steps) < 2 THEN "unknown"
             ELSE IF 100 * rollout.final_distance <= 95 * rollout.initial_distance
                  THEN "decreasing"
                  ELSE IF 100 * rollout.final_distance >= 105 * rollout.initial_distance
                       THEN "increasing"
                       ELSE "stable"


-----------------------------------------------------------------------------
(* Properties of send_message, under SpecSend.                              *)

Registered == {ws_connections.list[i] : i \in 1..Len(ws_connections.list)}

\* C25: a call of send_message returns, and what it returns is the number of
\* sockets the message was sent to; every socket whose send raised or that the
\* call found not CONNECTED is out of the list when the call returns, and every
\* socket that received the message is still in it unless its own endpoint
\* unregistered it.
C25_SendMessageCountsAndPrunes ==
    /\ send_call.pc # "raised"
    /\ send_call.pc = "returned"
          => /\ send_call.result = Cardinality(send_call.sent)
             /\ send_call.failed \cap Registered = {}
             /\ send_call.sent \ ws_left \subseteq Registered


-----------------------------------------------------------------------------
(* Further properties of eviction (SpecEvict) and of send_message (SpecSend). *)

\* C34: after a create_task call the planning registry holds at most MAX_TASKS
\* tasks, provided fewer than MAX_TASKS of the tasks it then holds are
\* non-terminal.
C34_CreateKeepsLimit ==
    [][(/\ next_uuid' # next_uuid
        /\ Len(ev_trajectory_tasks') = Len(ev_trajectory_tasks)
        /\ Cardinality({i \in 1..Len(ev_tasks') : ev_tasks'[i].status \notin Terminal})
              < MAX_TASKS)
          => Len(ev_tasks') <= MAX_TASKS
      ]_evict_vars

\* C40: no call of send_message raises, and the subscriber table never holds
\* the task's key with an empty list.
C40_SendMessageNeverRaises ==
    /\ send_call.pc # "raised"
    /\ ws_connections.present => ws_connections.list # <<>>


-----------------------------------------------------------------------------
(* Properties of the confidence, under SpecConf.                            *)

\* C31: whatever the best energy, the first entry of the energy history and
\* the final standard deviation are, the confidence a run returns lies in
\* [0.1, 0.98].
C31_ConfidenceInRange ==
    conf.pc = "returned" => (200 <= conf.confidence /\ conf.confidence <= 1960)

\* A run of energy 0 whose energy fell by 5 and whose deviation is 0 returned
\* the confidence 0.98: the weighted sum is 1.0.
C31_Witness ==
    /\ conf.pc = "returned"
    /\ conf.best_energy = Num(0)
    /\ conf.initial_energy = Num(500)
    /\ conf.final_std = Num(0)
    /\ conf.confidence = 1960


-----------------------------------------------------------------------------
(* Properties of the batch routes, under SpecBatchRun.                      *)

\* C35: once cancel_batch has returned, cancelled_tasks is the number of tasks
\* of the batch that had not finished when it was called, queued or running,
\* and none of those tasks is completed afterwards.
C35_CancelBatchCancelsPending ==
    \A b \in DOMAIN batches :
       batches[b].cancel_response.called
          => /\ batches[b].cancel_response.cancelled_tasks
                   = Cardinality(batches[b].cancel_response.pending)
             /\ \A t \in batches[b].cancel_response.pending :
                   tasks[t].status # "completed"

\* C36: a started batch reaches a final status.  Of every state this requires
\* that the coordinator of the batch has not ended short of the final status,
\* and that a coordinator that has finished left a final status, completed_at
\* and counts that add up to total_tasks.
C36_BatchReachesFinalStatus ==
    \A b \in DOMAIN batches :
       /\ batches[b].runner # "dead"
       /\ batches[b].runner = "finished"
             => /\ batches[b].status \in {"completed", "partial", "failed"}
                /\ batches[b].completed_at
                /\ batches[b].completed_tasks + batches[b].failed_tasks
                      = batches[b].total_tasks


-----------------------------------------------------------------------------
\* C38: for each driver run under the websocket wrapper exactly one terminal
\* event (completed, error or cancelled) is broadcast: never two, and one once
\* a run that started is over; and once it has been broadcast the worker of
\* that task is not in its progress callback, about to store and schedule
\* another progress event.
C38_OneTerminalEvent ==
    \A t \in DOMAIN terminal_events :
       /\ Len(terminal_events[t]) <= 1
       /\ (driver[t].wrapper = "ws" /\ driver[t].pc = "done" /\ TaskOf(t).status # "queued")
             => Len(terminal_events[t]) = 1
       /\ terminal_events[t] # <<>> => worker[t].pc # "cb_write"


-----------------------------------------------------------------------------
(* The step loop of a trajectory (SpecTraj).                                *)

\* The position a progress event reports, and its order.
PositionBefore(p, q) ==
    \/ p.current_step < q.current_step
    \/ p.current_step = q.current_step /\ p.iteration < q.iteration

PositionNotAfter(p, q) == PositionBefore(p, q) \/
    (p.current_step = q.current_step /\ p.iteration = q.iteration)

\* C32: when predict_next_embedding fails at step k the task does not fail and
\* the trajectory stays at the embedding step k planned from; the step is then
\* recorded with the distance and the progress ratio of that embedding, and
\* step k+1 plans from it again.  (A driver that is cancelled at the await of
\* the distance ends without recording the step.)
C32_FailedRollKeepsEmbedding ==
    [][/\ (traj.pc = "await_predict" /\ traj'.pc = "await_distance" /\ ~traj'.rolled)
           => /\ traj'.trajectory_embedding = traj.cem_embedding
              /\ traj'.status = traj.status
       /\ (traj.pc = "await_distance" /\ ~traj.rolled /\ traj'.pc # "await_distance")
           => \/ traj.must_cancel /\ traj'.pc = "ended"
              \/ LET unrolled == traj.emb_distance[traj.cem_embedding + 1]
                     recorded == traj'.completed_steps[Len(traj'.completed_steps)]
                 IN /\ Len(traj'.completed_steps) = Len(traj.completed_steps) + 1
                    /\ recorded.step = traj.step_idx
                    /\ recorded.measured_on = traj.cem_embedding
                    /\ recorded.distance_to_goal = unrolled
                    /\ recorded.progress_ratio =
                          RoundRatio(ProgressRatio(unrolled, traj.emb_distance[1]))
                    /\ traj'.status # "failed"
                    /\ traj'.pc = "await_cem" => traj'.cem_embedding = traj.cem_embedding
      ]_traj_vars

\* Step 0 rolled forward, the roll of step 1 failed, and step 2 planned from
\* the embedding step 1 had planned from.
C32_Witness ==
    /\ Len(traj.completed_steps) = 3
    /\ traj.completed_steps[1].measured_on = 1
    /\ traj.completed_steps[2].planned_from = 1
    /\ traj.completed_steps[2].measured_on = 1
    /\ traj.completed_steps[3].planned_from = 1
    /\ traj.status = "completed"

\* C33 as stated: every progress event of a trajectory carries the requested
\* num_steps, and the position (current_step, iteration) of each event is
\* strictly after that of the event before it.
C33_EveryEventStrictlyLater ==
    [][traj'.emitted # traj.emitted
          => /\ traj'.progress.total_steps = traj'.num_steps
             /\ traj.emitted > 0 => PositionBefore(traj.progress, traj'.progress)
      ]_traj_vars

\* C33, amended: every progress event carries the requested num_steps; an
\* event of cem_progress_for_step reports the index of the step being planned
\* and a position strictly after that of the event before it; the
\* loading_model and encoding events both report (0, 0), so over all events
\* the position never goes back.
C33_RunningEventsStrictlyLater ==
    [][traj'.emitted # traj.emitted
          => /\ traj'.progress.total_steps = traj'.num_steps
             /\ traj.emitted > 0 => PositionNotAfter(traj.progress, traj'.progress)
             /\ traj'.progress.status = "running"
                   => /\ traj'.progress.current_step = traj.step_idx
                      /\ traj.emitted > 0 => PositionBefore(traj.progress, traj'.progress)
             /\ traj'.progress.status # "running"
                   => /\ traj'.progress.current_step = 0
                      /\ traj'.progress.iteration = 0
      ]_traj_vars

\* The first callback of the third step, after loading_model and encoding
\* events.
C33_Witness ==
    /\ traj.progress.status = "running"
    /\ traj.progress.current_step = 2
    /\ traj.progress.iteration = 1
    /\ traj.emitted = 2 + 2 * TrajIterations + 1

\* C39: every progress event carries as many completed steps as its
\* current_step; the result of a completed trajectory has num_steps steps whose
\* step field is their position; a trajectory that ended cancelled or failed
\* has no result.
C39_StepsMatchPositions ==
    /\ traj.emitted > 0 => traj.progress.completed_steps = traj.progress.current_step
    /\ traj.status = "completed"
          => /\ traj.result.set
             /\ Len(traj.result.steps) = traj.num_steps
             /\ \A i \in 1..Len(traj.result.steps) : traj.result.steps[i].step = i - 1
    /\ (traj.pc = "ended" /\ traj.status \in {"cancelled", "failed"}) => ~traj.result.set

\* A completed trajectory of three steps whose last event was that of the
\* last iteration of its last step.
C39_Witness ==
    /\ traj.status = "completed"
    /\ traj.num_steps = 3
    /\ Len(traj.result.steps) = 3
    /\ traj.progress.current_step = 2
    /\ traj.progress.completed_steps = 2

-----------------------------------------------------------------------------
(* The download poller (SpecPoll).                                          *)

\* C37: once the driver run is over the poller writes task.progress no more.
C37_PollerQuietAfterRun ==
    [][poll.driver = "over" => poll'.writes = poll.writes]_poll_vars

====
